---- MODULE Spec2Model ----
(***************************************************************************)
(* Route optimisation core of the "Sistema Ultima Milla" service:          *)
(*   app/main.py                       optimize_route (fetch, zone         *)
(*                                     grouping, matrix, solve, expansion, *)
(*                                     persistence, response)              *)
(*   app/optimization/vrp_solver.py    VRPSolver.solve                     *)
(*   app/integrations/distance_matrix.py  get_distance_matrix,             *)
(*                                     get_full_matrix, haversine          *)
(*                                                                         *)
(* Conventions.  Python lists are TLA+ sequences; Python's 0-based index k *)
(* is position k+1.  A zone label is a sequence of characters.  A          *)
(* coordinate is an exact rational [n |-> numerator, d |-> denominator]    *)
(* (floating point rounding is not modelled).  Display names are left out. *)
(***************************************************************************)
EXTENDS Integers, Sequences, FiniteSets, TLC

VARIABLES
    route,   \* the last optimize_route request: inputs, intermediate values, effects
    sv,      \* the last VRPSolver.solve call: arguments, result, what it built
    fm,      \* the last DistanceMatrixClient.get_full_matrix call
    srv,     \* the running service: its event-loop thread and the requests sent to it
    db       \* the spreadsheet across calls: PEDIDOS rows, client counters, the last call

vars == <<route, sv, fm, srv, db>>

Idle == [pc |-> "idle"]

(***************************************************************************)
(* Generic helpers                                                         *)
(***************************************************************************)
Abs(x) == IF x < 0 THEN -x ELSE x

Min(a, b) == IF a <= b THEN a ELSE b

RangeOf(s) == {s[k] : k \in DOMAIN s}

RECURSIVE SeqSum(_)
SeqSum(s) == IF s = <<>> THEN 0 ELSE Head(s) + SeqSum(Tail(s))

RECURSIVE Flatten(_)
Flatten(ss) == IF ss = <<>> THEN <<>> ELSE Head(ss) \o Flatten(Tail(ss))

\* all orderings of the finite set S, as sequences
Orderings(S) ==
    {f \in [1..Cardinality(S) -> S] : \A a, b \in DOMAIN f : a # b => f[a] # f[b]}

(***************************************************************************)
(* Strings: str.strip() and str.lower() on zone labels                     *)
(***************************************************************************)
Whitespace == {" "}

LowerChar(c) ==
    CASE c = "C" -> "c"
      [] c = "N" -> "n"
      [] OTHER   -> c

RECURSIVE LStrip(_)
LStrip(s) == IF s # <<>> /\ Head(s) \in Whitespace THEN LStrip(Tail(s)) ELSE s

RECURSIVE RStrip(_)
RStrip(s) ==
    IF s # <<>> /\ s[Len(s)] \in Whitespace THEN RStrip(SubSeq(s, 1, Len(s) - 1)) ELSE s

Strip(s) == RStrip(LStrip(s))

Lower(s) == [k \in DOMAIN s |-> LowerChar(s[k])]

(***************************************************************************)
(* vrp_solver.py: DeliveryNode, OptimizationResult, VRPSolver              *)
(***************************************************************************)
\* Identifiers are strings in the code.  kind/num/key keep every identifier the
\* program can produce apart: "DEPOT", "WAYPOINT_HUICHAPAN", "PED-<num>",
\* "PROS-<num>" and "GROUP_<key>".
NodeId(kind, num, key) == [kind |-> kind, num |-> num, key |-> key]

DeliveryNode(id, lat, lng, is_depot, is_security_waypoint) ==
    [id |-> id, lat |-> lat, lng |-> lng,
     is_depot |-> is_depot, is_security_waypoint |-> is_security_waypoint]

Rat(n) == [n |-> n, d |-> 1]

\* VRPSolver.__init__: the depot node, and the waypoint node when one is given
\* (an Optional is a sequence of length 0 or 1)
SolverDepot(depot_location) ==
    DeliveryNode(NodeId("DEPOT", 0, <<>>), depot_location[1], depot_location[2], TRUE, FALSE)

SolverWaypoint(security_waypoint) ==
    IF security_waypoint = <<>> THEN <<>>
    ELSE <<DeliveryNode(NodeId("WAYPOINT_HUICHAPAN", 0, <<>>),
                        security_waypoint[1][1], security_waypoint[1][2], FALSE, TRUE)>>

VRPSolver(depot_location, security_waypoint) ==
    [depot |-> SolverDepot(depot_location),
     security_waypoint |-> SolverWaypoint(security_waypoint)]

Msg(text, n) == [text |-> text, n |-> n]

MsgMatrixError == Msg("Error interno: Matriz de distancias incorrecta", 0)

MsgNotEnoughNodes == Msg("No hay suficientes nodos para optimizar", 0)

MsgNoSolution == Msg("No se encontro solucion optima", 0)

MsgSolved(n) == Msg("Ruta optimizada con {n} paradas", n)

\* What a call of solve() leaves behind: the OptimizationResult it returned
\* (raised = FALSE) or the exception that left it, and how far it got.
SolveOutcome(raised, model_built, search_run, success, message, ordered_nodes, total_distance_meters, total_time_seconds, route_sequence) ==
    [raised |-> raised, model_built |-> model_built, search_run |-> search_run,
     success |-> success, message |-> message, ordered_nodes |-> ordered_nodes,
     total_distance_meters |-> total_distance_meters,
     total_time_seconds |-> total_time_seconds, route_sequence |-> route_sequence]

\* routing.AddDimension(..., 10000000, ...): cap on the cumulated distance
DistanceCap == 10000000

\* int(meters / 13.89), computed as floor(meters * 100 / 1389) without the large
\* intermediate product
TimeFromDistance(meters) ==
    (meters \div 1389) * 100 + ((meters % 1389) * 100) \div 1389

\* the successor of position k of a tour in the solution chain: the next node, or
\* the end of the route (the depot again) after the last one
TourNext(tour, k) == IF k < Len(tour) THEN tour[k + 1] ELSE 0

\* (mutant) the arc from the last visited node back to the depot not added
TourDistanceOneWay(tour, distance_matrix) ==
    SeqSum([k \in 1..(Len(tour) - 1) |-> distance_matrix[tour[k] + 1][tour[k + 1] + 1]])

\* total_distance accumulated by the extraction loop: one arc cost per visited
\* node, the last being the arc back to the depot
TourDistance(tour, distance_matrix) ==
    SeqSum([k \in DOMAIN tour |-> distance_matrix[tour[k] + 1][TourNext(tour, k) + 1]])

\* (mutant) the hard constraint left out of the routing model
HardConstraintSkipped(tour, has_waypoint) == TRUE

\* routing.solver().Add(routing.NextVar(NodeToIndex(0)) == NodeToIndex(1))
HardConstraint(tour, has_waypoint) == has_waypoint => tour[2] = 1

\* (mutant) the cap applied to the path without the arc back to the depot
FeasibleToursOneWayCap(num_nodes, has_waypoint, distance_matrix) ==
    {tour \in {<<0>> \o p : p \in Orderings(1..(num_nodes - 1))} :
        /\ HardConstraint(tour, has_waypoint)
        /\ TourDistanceOneWay(tour, distance_matrix) <= DistanceCap}

\* The solutions of the routing model: one vehicle starting at node 0, every node
\* visited once, the Distance dimension within its cap, and the hard constraint.
FeasibleTours(num_nodes, has_waypoint, distance_matrix) ==
    {tour \in {<<0>> \o p : p \in Orderings(1..(num_nodes - 1))} :
        /\ HardConstraint(tour, has_waypoint)
        /\ TourDistance(tour, distance_matrix) <= DistanceCap}

\* (mutant) the final return to the depot not appended to route_sequence
ExtractSolutionNoReturn(tour, all_nodes, distance_matrix) ==
    LET total_distance == TourDistance(tour, distance_matrix)
    IN  SolveOutcome(FALSE, TRUE, TRUE, TRUE, MsgSolved(Len(tour)),
                     [k \in DOMAIN tour |-> all_nodes[tour[k] + 1]],
                     total_distance, TimeFromDistance(total_distance),
                     tour)

\* the extraction loop and the final OptimizationResult
ExtractSolution(tour, all_nodes, distance_matrix) ==
    LET total_distance == TourDistance(tour, distance_matrix)
    IN  SolveOutcome(FALSE, TRUE, TRUE, TRUE, MsgSolved(Len(tour)),
                     [k \in DOMAIN tour |-> all_nodes[tour[k] + 1]],
                     total_distance, TimeFromDistance(total_distance),
                     tour \o <<0>>)

MatrixErrorResult == SolveOutcome(FALSE, FALSE, FALSE, FALSE, MsgMatrixError, <<>>, 0, 0, <<>>)

NotEnoughNodesResult ==
    SolveOutcome(FALSE, FALSE, FALSE, FALSE, MsgNotEnoughNodes, <<>>, 0, 0, <<>>)

NoSolutionResult == SolveOutcome(FALSE, TRUE, TRUE, FALSE, MsgNoSolution, <<>>, 0, 0, <<>>)

\* an IndexError: from the debug print of distance_matrix[0][0] before any check,
\* or from distance_callback reading past the end of a row once the routing
\* model exists (what the routing library then does with it is not followed
\* further: the call is recorded as having raised)
IndexErrorOutcome(model_built) ==
    SolveOutcome(TRUE, model_built, model_built, FALSE, Msg("IndexError", 0), <<>>, 0, 0, <<>>)

\* len(distance_matrix) != num_nodes: only the number of rows is compared
SizeMismatch(distance_matrix, num_nodes) == Len(distance_matrix) # num_nodes

\* (mutant) the node-count check off by one
TooFewNodesBelowOne(num_nodes) == num_nodes < 1

\* num_nodes < 2: nothing to route
TooFewNodes(num_nodes) == num_nodes < 2

\* VRPSolver.solve: every outcome the call can have.  The search is a heuristic
\* with a time limit: any feasible tour may be the one returned.
Solve(self, delivery_nodes, distance_matrix) ==
    LET all_nodes    == <<self.depot>> \o self.security_waypoint \o delivery_nodes
        has_waypoint == self.security_waypoint # <<>>
        num_nodes    == Len(all_nodes)
        tours        == FeasibleTours(num_nodes, has_waypoint, distance_matrix)
    IN  IF Len(distance_matrix) > 0 /\ distance_matrix[1] = <<>>
          THEN {IndexErrorOutcome(FALSE)}
        ELSE IF SizeMismatch(distance_matrix, num_nodes)
          THEN {MatrixErrorResult}
        ELSE IF TooFewNodes(num_nodes)
          THEN {NotEnoughNodesResult}
        ELSE IF \E r \in DOMAIN distance_matrix : Len(distance_matrix[r]) < num_nodes
          THEN {IndexErrorOutcome(TRUE)}
        ELSE IF tours = {}
          THEN {NoSolutionResult}
        ELSE {ExtractSolution(tour, all_nodes, distance_matrix) : tour \in tours}

(***************************************************************************)
(* Calls of VRPSolver.solve on its own (SpecSolve)                         *)
(***************************************************************************)
\* most delivery nodes passed to one solve() call
MaxDelivery == 3

\* largest number of rows, and of columns, of a matrix passed to solve()
MaxDim == MaxDelivery + 3

\* Rows a caller's matrix is made of: all arcs short, all arcs far beyond half
\* the cap, or alternating (metres).
RowCell(template, j) ==
    CASE template = "near"  -> 1000 * j
      [] template = "far"   -> 6000000
      [] template = "mixed" -> IF j % 2 = 0 THEN 5000000 ELSE 3000

RowTemplates == {"near", "far", "mixed"}

Matrices(rows, cols) ==
    {[r \in 1..rows |-> [j \in 1..cols |-> RowCell(t[r], j)]] : t \in [1..rows -> RowTemplates]}

\* WAREHOUSE_LAT/LNG and HUICHAPAN_LAT/LNG, in hundredths of a degree
WarehouseLocation == <<Rat(1943), Rat(-9913)>>

HuichapanLocation == <<Rat(2037), Rat(-9966)>>

TestNode(k) == DeliveryNode(NodeId("PED", k, <<>>), Rat(2046 + k), Rat(-9988), FALSE, FALSE)

SolveInit ==
    /\ route = Idle
    /\ fm = Idle
    /\ srv = Idle
    /\ db = Idle
    /\ \E has_waypoint \in BOOLEAN, n \in 0..MaxDelivery, rows \in 0..MaxDim, cols \in 0..MaxDim :
         \E distance_matrix \in Matrices(rows, cols) :
            sv = [pc |-> "called",
                  self |-> VRPSolver(WarehouseLocation,
                                     IF has_waypoint THEN <<HuichapanLocation>> ELSE <<>>),
                  delivery_nodes |-> [k \in 1..n |-> TestNode(k)],
                  distance_matrix |-> distance_matrix]

\* solve() runs to its end: it returns a result or raises
SolveCall ==
    /\ sv.pc = "called"
    /\ \E out \in Solve(sv.self, sv.delivery_nodes, sv.distance_matrix) :
          sv' = [pc |-> "returned", self |-> sv.self, delivery_nodes |-> sv.delivery_nodes,
                 distance_matrix |-> sv.distance_matrix, out |-> out]
    /\ UNCHANGED <<route, fm, srv, db>>

SolveNext == SolveCall

SpecSolve == SolveInit /\ [][SolveNext]_vars

\* the node list and the node count of the call in sv
SvAllNodes == <<sv.self.depot>> \o sv.self.security_waypoint \o sv.delivery_nodes

SvNumNodes == Len(SvAllNodes)

SvHasWaypoint == sv.self.security_waypoint # <<>>

SvReturned == sv.pc = "returned"

(***************************************************************************)
(* Claims about VRPSolver.solve (checked under SpecSolve)                  *)
(***************************************************************************)
SvSucceeded == SvReturned /\ ~sv.out.raised /\ sv.out.success

\* C1: whenever the solver was constructed with a security waypoint, every
\* successful result of solve() has the depot as ordered_nodes[0] and the
\* waypoint as ordered_nodes[1], whatever the distance matrix.
C1_WaypointFollowsDepot ==
    (SvSucceeded /\ SvHasWaypoint) =>
        /\ Len(sv.out.ordered_nodes) >= 2
        /\ sv.out.ordered_nodes[1] = sv.self.depot
        /\ sv.out.ordered_nodes[2] = sv.self.security_waypoint[1]

\* C1 witness: a solved call with a waypoint and two or more delivery nodes in
\* which the arc depot -> first delivery node is cheaper than depot -> waypoint
C1_Witness ==
    /\ SvSucceeded /\ SvHasWaypoint
    /\ Len(sv.delivery_nodes) >= 2
    /\ sv.distance_matrix[1][3] < sv.distance_matrix[1][2]
    /\ sv.out.ordered_nodes[2].is_security_waypoint

\* the matrix is num_nodes x num_nodes
SvMatrixSquare ==
    /\ Len(sv.distance_matrix) = SvNumNodes
    /\ \A r \in DOMAIN sv.distance_matrix : Len(sv.distance_matrix[r]) = SvNumNodes

\* C7 (as claimed): a matrix whose row count or column count differs from the node
\* count makes solve() return the matrix-error result (success false, the
\* matrix-error message, no ordered nodes) before any routing model or search.
C7_MismatchFailsFast ==
    (SvReturned /\ ~SvMatrixSquare) =>
        /\ ~sv.out.raised
        /\ ~sv.out.success
        /\ sv.out.message = MsgMatrixError
        /\ sv.out.message \notin {MsgNoSolution, MsgNotEnoughNodes}
        /\ sv.out.ordered_nodes = <<>>
        /\ ~sv.out.model_built
        /\ ~sv.out.search_run

\* C8: with fewer than 2 nodes in total and a matrix of matching dimension,
\* solve() returns the normal 'not enough nodes' failure and builds no routing
\* model and runs no search.
C8_TooFewNodesFailsFast ==
    (SvReturned /\ SvNumNodes < 2 /\ SvMatrixSquare) =>
        /\ ~sv.out.raised
        /\ ~sv.out.success
        /\ sv.out.message = MsgNotEnoughNodes
        /\ sv.out.ordered_nodes = <<>>
        /\ ~sv.out.model_built
        /\ ~sv.out.search_run

\* C8 witness: a depot-only call with a 1 x 1 matrix has returned 'not enough nodes'
C8_Witness ==
    /\ SvReturned /\ SvNumNodes = 1 /\ SvMatrixSquare
    /\ ~SvHasWaypoint /\ sv.delivery_nodes = <<>>
    /\ sv.out.message = MsgNotEnoughNodes

\* C14: on success, ordered_nodes holds every node of [depot, waypoint?,
\* ...delivery_nodes] exactly once with the depot first, and route_sequence is
\* the matching sequence of matrix indices followed by one final 0 (its length
\* is the node count + 1).
C14_RouteSequenceMatches ==
    SvSucceeded =>
        LET n  == SvNumNodes
            on == sv.out.ordered_nodes
            rs == sv.out.route_sequence
        IN  /\ Len(on) = n
            /\ on[1] = sv.self.depot
            /\ \A m \in 1..n : Cardinality({k \in DOMAIN on : on[k] = SvAllNodes[m]}) = 1
            /\ Len(rs) = n + 1
            /\ rs[n + 1] = 0
            /\ \A k \in 1..n : rs[k] \in 0..(n - 1) /\ on[k] = SvAllNodes[rs[k] + 1]

\* C14 witness: a solved call with a waypoint in which the delivery nodes are not
\* visited in the order they were passed
C14_Witness ==
    /\ SvSucceeded /\ SvHasWaypoint
    /\ Len(sv.delivery_nodes) >= 2
    /\ sv.out.route_sequence[3] # 2
    /\ sv.out.route_sequence[Len(sv.out.route_sequence)] = 0
    /\ sv.out.ordered_nodes[3] = sv.delivery_nodes[sv.out.route_sequence[3] - 1]

\* the matrix entries along consecutive indices of a route sequence
ArcsAlong(rs, distance_matrix) ==
    [k \in 1..(Len(rs) - 1) |-> distance_matrix[rs[k] + 1][rs[k + 1] + 1]]

\* C15: on success, total_distance_meters is the sum of the matrix entries along
\* consecutive nodes of the returned order plus the entry for the arc from the
\* last node back to the depot; with one stop and no waypoint it is
\* matrix[0][1] + matrix[1][0].
C15_TotalIsSumOfArcs ==
    SvSucceeded =>
        /\ sv.out.total_distance_meters
              = SeqSum(ArcsAlong(sv.out.route_sequence, sv.distance_matrix))
        /\ (~SvHasWaypoint /\ Len(sv.delivery_nodes) = 1) =>
              sv.out.total_distance_meters
                  = sv.distance_matrix[1][2] + sv.distance_matrix[2][1]

\* C15 witness: a solved call with one stop and no waypoint whose two arcs differ
\* in length, and whose total counts both
C15_Witness ==
    /\ SvSucceeded /\ ~SvHasWaypoint
    /\ Len(sv.delivery_nodes) = 1
    /\ sv.distance_matrix[1][2] # sv.distance_matrix[2][1]
    /\ sv.distance_matrix[2][1] > 0
    /\ sv.out.total_distance_meters > sv.distance_matrix[1][2]

\* the failures solve() reports through an OptimizationResult
CleanFailures == {MatrixErrorResult, NotEnoughNodesResult, NoSolutionResult}

\* C16 (as claimed): every call of solve() ends by returning one
\* OptimizationResult, either a feasible tour or a clean failure.
C16_AlwaysReturnsResult ==
    SvReturned =>
        /\ ~sv.out.raised
        /\ sv.out.success \/ sv.out \in CleanFailures

\* a well-formed call: the matrix is num_nodes x num_nodes and there are at
\* least two nodes
SvWellFormed == SvReturned /\ SvMatrixSquare /\ SvNumNodes >= 2

\* the closed routes over the nodes of the call: from the depot through every
\* other node once and back to the depot, the waypoint second when there is one
SvRootedRoutes ==
    {rs \in {<<0>> \o p \o <<0>> : p \in Orderings(1..(SvNumNodes - 1))} :
        SvHasWaypoint => rs[2] = 1}

\* those whose arcs, the return arc included, add up to at most the cap
SvRoutesWithinCap ==
    {rs \in SvRootedRoutes : SeqSum(ArcsAlong(rs, sv.distance_matrix)) <= DistanceCap}

RatAbsDiff(a, b) == [n |-> Abs(a.n * b.d - b.n * a.d), d |-> a.d * b.d]

\* int(_haversine_distance(...) * 1000).  The great-circle formula needs
\* trigonometry; it is replaced by 1110 m per hundredth of a degree of latitude
\* plus longitude difference, which keeps what the callers rely on: an integer
\* >= 0, 0 between equal points, symmetric, growing with the separation.
HaversineMeters(p, q) ==
    LET dlat == RatAbsDiff(p[1], q[1])
        dlng == RatAbsDiff(p[2], q[2])
    IN  (1110 * dlat.n) \div dlat.d + (1110 * dlng.n) \div dlng.d

\* calculate_haversine_matrix: 0 on the diagonal, the haversine metres elsewhere
CalculateHaversineMatrix(locations) ==
    [i \in DOMAIN locations |->
        [j \in DOMAIN locations |->
            IF i # j THEN HaversineMeters(locations[i], locations[j]) ELSE 0]]

(***************************************************************************)
(* main.py optimize_route: zone grouping                                   *)
(***************************************************************************)
\* a delivery dict; type is "missing" when the dict has no "type" key
Delivery(id, lat, lng, type, zona) ==
    [id |-> id, lat |-> lat, lng |-> lng, type |-> type, zona |-> zona]

\* a dict kept as the sequence of its (key, value) entries in insertion order
DictHas(dict, key) == \E k \in DOMAIN dict : dict[k].key = key

DictGet(dict, key, default) ==
    IF DictHas(dict, key)
    THEN dict[CHOOSE k \in DOMAIN dict : dict[k].key = key].value
    ELSE default

\* dict[key] = value: overwrites in place, or appends a new entry
DictSet(dict, key, value) ==
    IF DictHas(dict, key)
    THEN [k \in DOMAIN dict |-> IF dict[k].key = key THEN [key |-> key, value |-> value]
                                                      ELSE dict[k]]
    ELSE Append(dict, [key |-> key, value |-> value])

\* (mutant) the zone key not lowercased
ZoneKeyCaseSensitive(zona) == zona

\* zona.lower() of the stripped label
ZoneKey(zona) == Lower(zona)

RECURSIVE GroupLoop(_, _, _)
\* for d in all_deliveries_flat: ... (grouped_deliveries, singles)
GroupLoop(ds, grouped_deliveries, singles) ==
    IF ds = <<>> THEN [grouped_deliveries |-> grouped_deliveries, singles |-> singles]
    ELSE LET d    == Head(ds)
             zona == Strip(d.zona)
         IN  IF zona # <<>>
             THEN LET zone_key == ZoneKey(zona)
                  IN  GroupLoop(Tail(ds),
                                DictSet(grouped_deliveries, zone_key,
                                        Append(DictGet(grouped_deliveries, zone_key, <<>>), d)),
                                singles)
             ELSE GroupLoop(Tail(ds), grouped_deliveries, Append(singles, d))

RECURSIVE RatSum(_)
\* sum(...) of coordinates
RatSum(rs) ==
    IF rs = <<>> THEN [n |-> 0, d |-> 1]
    ELSE LET a == Head(rs)
             b == RatSum(Tail(rs))
         IN  [n |-> a.n * b.d + b.n * a.d, d |-> a.d * b.d]

\* sum(d[field] for d in items) / len(items)
Centroid(coords) == LET t == RatSum(coords) IN [n |-> t.n, d |-> t.d * Len(coords)]

ProxyId(zone_key) == NodeId("GROUP", 0, zone_key)

\* (mutant) the proxy identifier taken from the group's first member as well
ProxyNodeIdFromMember(zone_key, items) ==
    Delivery(NodeId("GROUP", items[1].id.num, zone_key),
             Centroid([k \in DOMAIN items |-> items[k].lat]),
             Centroid([k \in DOMAIN items |-> items[k].lng]),
             "group", items[1].zona)

\* proxy_node: id "GROUP_<zone_key>", the centroid, type "group", the first
\* member's label
ProxyNode(zone_key, items) ==
    Delivery(ProxyId(zone_key),
             Centroid([k \in DOMAIN items |-> items[k].lat]),
             Centroid([k \in DOMAIN items |-> items[k].lng]),
             "group", items[1].zona)

\* (mutant) every zone group proxied, singleton or not
IsProxiedAlways(items) == TRUE

\* a group becomes a proxy node when it has more than one member
IsProxied(items) == Len(items) # 1

RECURSIVE AddSingles(_, _)
\* for d in singles: solver_nodes_map[d["id"]] = [d]; final_nodes_for_solver.append(d)
AddSingles(singles, acc) ==
    IF singles = <<>> THEN acc
    ELSE LET d == Head(singles)
         IN  AddSingles(Tail(singles),
                        [solver_nodes_map |-> DictSet(acc.solver_nodes_map, d.id, <<d>>),
                         final_nodes_for_solver |-> Append(acc.final_nodes_for_solver, d)])

RECURSIVE AddGroups(_, _)
\* for zone_key, items in grouped_deliveries.items(): ...
AddGroups(groups, acc) ==
    IF groups = <<>> THEN acc
    ELSE LET zone_key == Head(groups).key
             items    == Head(groups).value
         IN  IF ~IsProxied(items)
             THEN AddGroups(Tail(groups),
                    [solver_nodes_map |-> DictSet(acc.solver_nodes_map, items[1].id, <<items[1]>>),
                     final_nodes_for_solver |-> Append(acc.final_nodes_for_solver, items[1])])
             ELSE AddGroups(Tail(groups),
                    [solver_nodes_map |-> DictSet(acc.solver_nodes_map, ProxyId(zone_key), items),
                     final_nodes_for_solver |->
                         Append(acc.final_nodes_for_solver, ProxyNode(zone_key, items))])

\* the grouping block: solver_nodes_map and final_nodes_for_solver
GroupDeliveries(deliveries) ==
    LET g == GroupLoop(deliveries, <<>>, <<>>)
    IN  AddGroups(g.grouped_deliveries,
                  AddSingles(g.singles, [solver_nodes_map |-> <<>>,
                                         final_nodes_for_solver |-> <<>>]))

(***************************************************************************)
(* main.py optimize_route: expansion                                       *)
(***************************************************************************)
PlainNode(d) == DeliveryNode(d.id, d.lat, d.lng, FALSE, FALSE)

\* (mutant) the solved node kept as it is, proxy or not
ExpandNodeKeepsProxy(node, solver_nodes_map) == <<node>>

\* what one solved node contributes to ordered_nodes_expanded
ExpandNode(node, solver_nodes_map) ==
    IF node.is_depot \/ node.is_security_waypoint THEN <<node>>
    ELSE LET real_items == DictGet(solver_nodes_map, node.id, <<>>)
         IN  IF real_items # <<>>
             THEN [k \in DOMAIN real_items |-> PlainNode(real_items[k])]
             ELSE <<node>>

\* (mutant) the expansions of the proxy nodes moved behind all other nodes
ExpandNodesProxiesLast(ordered_nodes, solver_nodes_map) ==
    LET IsProxy(node) == node.id.kind = "GROUP"
        NotProxy(node) == node.id.kind # "GROUP"
        others  == SelectSeq(ordered_nodes, NotProxy)
        proxies == SelectSeq(ordered_nodes, IsProxy)
    IN  Flatten([k \in DOMAIN others |-> ExpandNode(others[k], solver_nodes_map)])
            \o Flatten([k \in DOMAIN proxies |-> ExpandNode(proxies[k], solver_nodes_map)])

ExpandNodes(ordered_nodes, solver_nodes_map) ==
    Flatten([k \in DOMAIN ordered_nodes |-> ExpandNode(ordered_nodes[k], solver_nodes_map)])

(***************************************************************************)
(* distance_matrix.py: DistanceMatrixClient                                *)
(***************************************************************************)
\* The external Distance Matrix service.  What it answers for a pair depends on
\* the pair alone.  "ok": every element has status OK; "some_unresolved": the
\* elements from a point to a point further north are not OK; "rows_missing":
\* the response lacks its last row; "elements_missing": every row of the
\* response lacks its last element; "raises": the client call raises.
ServiceKinds == {"ok", "some_unresolved", "rows_missing", "elements_missing", "raises"}

ElementStatus(svc, origin, destination) ==
    IF svc = "some_unresolved" /\ origin[1].n * destination[1].d < destination[1].n * origin[1].d
    THEN "ZERO_RESULTS"
    ELSE "OK"

\* road metres and seconds the service reports for a pair (longer than the
\* straight line, and not symmetric)
ServiceDistance(origin, destination) ==
    (HaversineMeters(origin, destination) * 13) \div 10
        + (IF origin[2].n * destination[2].d < destination[2].n * origin[2].d THEN 700 ELSE 0)

ServiceDuration(origin, destination) == ServiceDistance(origin, destination) \div 11

\* one element of a response row: its status and, when the status is OK, the
\* "distance" and "duration" values (an absent key is <<>>)
ServiceElement(svc, origin, destination) ==
    IF ElementStatus(svc, origin, destination) = "OK"
    THEN [status |-> "OK", distance |-> <<ServiceDistance(origin, destination)>>,
          duration |-> <<ServiceDuration(origin, destination)>>]
    ELSE [status |-> ElementStatus(svc, origin, destination), distance |-> <<>>,
          duration |-> <<>>]

\* result of self.client.distance_matrix(...): the rows of the response
ServiceResponse(svc, origins, destinations) ==
    LET n_rows     == IF svc = "rows_missing" /\ origins # <<>>
                      THEN Len(origins) - 1 ELSE Len(origins)
        n_elements == IF svc = "elements_missing" /\ destinations # <<>>
                      THEN Len(destinations) - 1 ELSE Len(destinations)
    IN  [i \in 1..n_rows |->
            [j \in 1..n_elements |-> ServiceElement(svc, origins[i], destinations[j])]]

\* element.get(key, {}).get("value", 0)
ValueOrZero(field) == IF field = <<>> THEN 0 ELSE field[1]

\* (mutant) the status of the element not looked at
ParseElementIgnoresStatus(element, origin, destination) ==
    [distance |-> ValueOrZero(element.distance), duration |-> ValueOrZero(element.duration)]

\* the body of the parsing loop: the values written into distances[i][j] and
\* durations[i][j] for one element of the response
ParseElement(element, origin, destination) ==
    IF element.status = "OK"
    THEN [distance |-> ValueOrZero(element.distance),
          duration |-> ValueOrZero(element.duration)]
    ELSE LET meters == HaversineMeters(origin, destination)
         IN  [distance |-> meters, duration |-> TimeFromDistance(meters)]

\* what the parsing loops leave in cell (i, j): the parsed element when the
\* response has one there, else the 0 the matrices were created with
ParsedCell(rows, origins, destinations, i, j) ==
    IF i <= Len(rows) /\ j <= Len(rows[i])
    THEN ParseElement(rows[i][j], origins[i], destinations[j])
    ELSE [distance |-> 0, duration |-> 0]

\* get_distance_matrix: one request to the service and the two parsed matrices
GetDistanceMatrix(origins, destinations, svc) ==
    IF svc = "raises"
    THEN [raised |-> TRUE, distances |-> <<>>, durations |-> <<>>]
    ELSE LET rows == ServiceResponse(svc, origins, destinations)
         IN  [raised |-> FALSE,
              distances |-> [i \in DOMAIN origins |-> [j \in DOMAIN destinations |->
                                ParsedCell(rows, origins, destinations, i, j).distance]],
              durations |-> [i \in DOMAIN origins |-> [j \in DOMAIN destinations |->
                                ParsedCell(rows, origins, destinations, i, j).duration]]]

\* batch_size = 10
BatchSize == 10

\* range(0, n, batch_size)
BlockStarts(n) == [k \in 1..((n + BatchSize - 1) \div BatchSize) |-> (k - 1) * BatchSize]

\* the (i_start, j_start) pairs in the order of the two nested loops
Blocks(n) ==
    LET starts == BlockStarts(n)
    IN  Flatten([a \in DOMAIN starts |-> [b \in DOMAIN starts |-> <<starts[a], starts[b]>>]])

\* (mutant) the block offset forgotten when writing a sub-result
LocalIndexNoOffset(global, start) == global

\* enumerate(range(start, end)): the local index paired with a global index
LocalIndex(global, start) == global - start

\* the two inner loops: the sub-result written into the full matrix
StitchBlock(full, sub, i_start, i_end, j_start, j_end) ==
    [i \in DOMAIN full |-> [j \in DOMAIN full[i] |->
        LET i_local == LocalIndex(i - 1, i_start)
            j_local == LocalIndex(j - 1, j_start)
        IN  IF /\ i_local \in 0..(i_end - i_start - 1)
               /\ j_local \in 0..(j_end - j_start - 1)
            THEN sub[i_local + 1][j_local + 1]
            ELSE full[i][j]]]

\* how often each cell has been assigned by the two inner loops
CountBlock(writes, i_start, i_end, j_start, j_end) ==
    [i \in DOMAIN writes |-> [j \in DOMAIN writes[i] |->
        IF (i - 1) \in i_start..(i_end - 1) /\ (j - 1) \in j_start..(j_end - 1)
        THEN writes[i][j] + 1
        ELSE writes[i][j]]]

\* a call that was left by an exception: no matrices are returned
FullMatrixRaised(requests) ==
    [raised |-> TRUE, distances |-> <<>>, durations |-> <<>>, requests |-> requests,
     writes |-> <<>>]

RECURSIVE BatchLoop(_, _, _, _)
\* the batching loops of get_full_matrix; acc holds distances, durations, the
\* requests made so far (origins and destinations of each) and, per cell, the
\* number of sub-results written into it
BatchLoop(blocks, locations, svc, acc) ==
    IF blocks = <<>> \/ acc.raised THEN acc
    ELSE LET n            == Len(locations)
             i_start      == Head(blocks)[1]
             j_start      == Head(blocks)[2]
             i_end        == Min(i_start + BatchSize, n)
             j_end        == Min(j_start + BatchSize, n)
             origins      == SubSeq(locations, i_start + 1, i_end)
             destinations == SubSeq(locations, j_start + 1, j_end)
             result       == GetDistanceMatrix(origins, destinations, svc)
             requests     == Append(acc.requests, [origins |-> origins,
                                                   destinations |-> destinations])
         IN  IF result.raised
             THEN FullMatrixRaised(requests)
             ELSE BatchLoop(Tail(blocks), locations, svc,
                    [raised |-> FALSE,
                     distances |-> StitchBlock(acc.distances, result.distances,
                                               i_start, i_end, j_start, j_end),
                     durations |-> StitchBlock(acc.durations, result.durations,
                                               i_start, i_end, j_start, j_end),
                     requests |-> requests,
                     writes |-> CountBlock(acc.writes, i_start, i_end, j_start, j_end)])

\* if n <= 10: one request for the whole matrix
SingleRequest(n) == n <= 10

\* get_full_matrix
GetFullMatrix(locations, svc) ==
    LET n == Len(locations)
    IN  IF SingleRequest(n)
        THEN LET result   == GetDistanceMatrix(locations, locations, svc)
                 requests == <<[origins |-> locations, destinations |-> locations]>>
             IN  IF result.raised
                 THEN FullMatrixRaised(requests)
                 ELSE [raised |-> FALSE, distances |-> result.distances,
                       durations |-> result.durations, requests |-> requests,
                       writes |-> [i \in 1..n |-> [j \in 1..n |-> 1]]]
        ELSE BatchLoop(Blocks(n), locations, svc,
                       [raised |-> FALSE,
                        distances |-> [i \in 1..n |-> [j \in 1..n |-> 0]],
                        durations |-> [i \in 1..n |-> [j \in 1..n |-> 0]],
                        requests |-> <<>>,
                        writes |-> [i \in 1..n |-> [j \in 1..n |-> 0]]])

(***************************************************************************)
(* Calls of get_full_matrix on their own (SpecMatrix)                      *)
(***************************************************************************)
\* most locations passed to one get_full_matrix call
MaxLocations == 12

\* the location lists of length n: every location is the first demo stop, but
\* for at most two positions, which hold the second demo stop
LocationLists(n) ==
    {[k \in 1..n |-> IF k \in S THEN <<Rat(2054), Rat(-9977)>>
                                 ELSE <<Rat(2046), Rat(-9988)>>] :
        S \in {T \in SUBSET (1..n) : Cardinality(T) <= 2}}

MatrixInit ==
    /\ route = Idle
    /\ sv = Idle
    /\ srv = Idle
    /\ db = Idle
    /\ \E n \in 0..MaxLocations, svc \in ServiceKinds :
         \E locations \in LocationLists(n) :
            fm = [pc |-> "called", locations |-> locations, svc |-> svc]

\* get_full_matrix runs to its end
FullMatrixCall ==
    /\ fm.pc = "called"
    /\ fm' = [pc |-> "returned", locations |-> fm.locations, svc |-> fm.svc,
              out |-> GetFullMatrix(fm.locations, fm.svc)]
    /\ UNCHANGED <<route, sv, srv, db>>

MatrixNext == FullMatrixCall

SpecMatrix == MatrixInit /\ [][MatrixNext]_vars

\* C10: for more than 10 locations and a service that answers every pair OK, the
\* distances and durations get_full_matrix stitches from its 10 x 10 blocks equal,
\* cell by cell, those of one get_distance_matrix(locations, locations) call.
C10_BatchedEqualsUnbatched ==
    (fm.pc = "returned" /\ Len(fm.locations) > 10 /\ fm.svc = "ok") =>
        LET single == GetDistanceMatrix(fm.locations, fm.locations, fm.svc)
        IN  /\ ~fm.out.raised
            /\ DOMAIN fm.out.distances = DOMAIN single.distances
            /\ \A i \in DOMAIN single.distances :
                 /\ fm.out.distances[i] = single.distances[i]
                 /\ fm.out.durations[i] = single.durations[i]

\* C10 witness: a batched call (four requests) over more than 10 locations of
\* which the last differs from the first has returned, with a non-zero distance
\* in the last block
C10_Witness ==
    /\ fm.pc = "returned" /\ fm.svc = "ok"
    /\ Len(fm.locations) > 10
    /\ Len(fm.out.requests) = 4
    /\ fm.locations[1] # fm.locations[Len(fm.locations)]
    /\ fm.out.distances[Len(fm.locations)][1] > 0

\* the call in fm went straight to get_distance_matrix(locations, locations) and
\* returned its result
FmSingleReturned ==
    /\ fm.pc = "returned" /\ ~fm.out.raised
    /\ Len(fm.locations) <= BatchSize

\* the response the service gave to that one request
FmResponse == ServiceResponse(fm.svc, fm.locations, fm.locations)

FmHasElement(i, j) == i <= Len(FmResponse) /\ j <= Len(FmResponse[i])

\* C11: in get_distance_matrix, a cell whose response element is not OK holds
\* the haversine estimate and the duration derived from it, and every cell whose
\* element is OK holds exactly the distance and duration the service returned,
\* whatever the status of the other cells.
C11_PerCellFallback ==
    FmSingleReturned =>
        \A i, j \in DOMAIN fm.locations :
            FmHasElement(i, j) =>
                LET element == FmResponse[i][j]
                IN  IF element.status = "OK"
                    THEN /\ fm.out.distances[i][j] = element.distance[1]
                         /\ fm.out.durations[i][j] = element.duration[1]
                    ELSE /\ fm.out.distances[i][j]
                              = HaversineMeters(fm.locations[i], fm.locations[j])
                         /\ fm.out.durations[i][j]
                              = TimeFromDistance(fm.out.distances[i][j])

\* C11 witness: a returned matrix holds an unresolved cell with a non-zero
\* estimate and, for the opposite direction of the same pair, an OK cell whose
\* service distance differs from the estimate
C11_Witness ==
    /\ FmSingleReturned
    /\ \E i, j \in DOMAIN fm.locations :
          /\ FmHasElement(i, j) /\ FmHasElement(j, i)
          /\ FmResponse[i][j].status # "OK"
          /\ fm.out.distances[i][j] > 0
          /\ FmResponse[j][i].status = "OK"
          /\ fm.out.distances[j][i] = ServiceDistance(fm.locations[j], fm.locations[i])
          /\ fm.out.distances[j][i] # HaversineMeters(fm.locations[j], fm.locations[i])

\* ceil(n / 10): the number of blocks of at most 10 locations
FmBlockCount == (Len(fm.locations) + BatchSize - 1) \div BatchSize

\* C12 (as claimed): get_full_matrix issues exactly one request when N <= 10 and
\* exactly ceil(N/10)^2 requests when N > 10, no request carries more than 10
\* origins or 10 destinations, and every cell of the N x N result is written
\* from exactly one sub-result.
C12_RequestPerBlockPair ==
    fm.pc = "returned" =>
        LET n == Len(fm.locations)
        IN  /\ n <= 10 => Len(fm.out.requests) = 1
            /\ n > 10 => Len(fm.out.requests) = FmBlockCount * FmBlockCount
            /\ \A k \in DOMAIN fm.out.requests :
                  /\ Len(fm.out.requests[k].origins) <= 10
                  /\ Len(fm.out.requests[k].destinations) <= 10
            /\ ~fm.out.raised =>
                  /\ DOMAIN fm.out.writes = 1..n
                  /\ \A i, j \in 1..n : fm.out.writes[i][j] = 1

\* the distance the service reports for the pair (i, j) when it answers it OK,
\* else the geometric estimate
FmExpectedDistance(i, j) ==
    IF fm.svc # "raises" /\ ElementStatus(fm.svc, fm.locations[i], fm.locations[j]) = "OK"
    THEN ServiceDistance(fm.locations[i], fm.locations[j])
    ELSE HaversineMeters(fm.locations[i], fm.locations[j])

\* C13 (as claimed): get_full_matrix always returns a fully populated N x N
\* distance matrix, however its service calls fail: a raising call, or a response
\* with missing rows or elements, leaves the affected cells at the geometric
\* estimate, and the call neither aborts nor leaves a cell at its default.
C13_AlwaysFullyPopulated ==
    fm.pc = "returned" =>
        LET n == Len(fm.locations)
        IN  /\ ~fm.out.raised
            /\ DOMAIN fm.out.distances = 1..n
            /\ \A i \in 1..n :
                  /\ DOMAIN fm.out.distances[i] = 1..n
                  /\ \A j \in 1..n : fm.out.distances[i][j] = FmExpectedDistance(i, j)

(***************************************************************************)
(* main.py optimize_route: the stops of a request                          *)
(***************************************************************************)
\* most rows (orders plus prospects) the sheets hold for the route date
MaxStops == 3

\* the five demo stops' coordinates (hundredths of a degree)
DemoCoords ==
    << <<2046, -9988>>, <<2054, -9977>>, <<2035, -9965>>, <<2023, -9954>>, <<2068, -9943>> >>

\* use_demo: the built-in deliveries, which have no "type" and no "zona" key
DemoDeliveries ==
    [k \in 1..5 |-> Delivery(NodeId("PED", k, <<>>), Rat(DemoCoords[k][1]),
                             Rat(DemoCoords[k][2]), "missing", <<>>)]

\* a cell of a sheet row: a string that is empty, a number, or other text
RawNumber(v) == [kind |-> "number", v |-> v]

RawEmpty == [kind |-> "empty", v |-> 0]

RawText == [kind |-> "text", v |-> 0]

\* the zone labels clients carry
Labels == {<<>>, <<" ">>, <<"C">>, <<" ", "c", " ">>, <<"N">>}

\* where the k-th order's client, and the k-th prospect, is
OrderCoords(k) == DemoCoords[((k - 1) % 5) + 1]

ProspectCoords(k) == DemoCoords[((k + 1) % 5) + 1]

SheetRow(id, lat_raw, lng_raw, zona) ==
    [id |-> id, Latitud |-> lat_raw, Longitud |-> lng_raw, Zona |-> zona]

\* the rows get_orders_for_optimization can return for the k-th order (identifiers
\* are the PED-<uuid> of create_order, so they are distinct)
OrderRows(k) ==
    {SheetRow(NodeId("PED", k, <<>>), RawNumber(OrderCoords(k)[1]),
              RawNumber(OrderCoords(k)[2]), zona) : zona \in Labels}
    \cup {SheetRow(NodeId("PED", k, <<>>), RawEmpty, RawEmpty, <<>>),
          SheetRow(NodeId("PED", k, <<>>), RawText, RawNumber(OrderCoords(k)[2]), <<>>)}

\* the rows get_pending_prospects can return for the k-th prospect
ProspectRows(k) ==
    {SheetRow(NodeId("PROS", k, <<>>), RawNumber(ProspectCoords(k)[1]),
              RawNumber(ProspectCoords(k)[2]), <<>>),
     SheetRow(NodeId("PROS", k, <<>>), RawNumber(ProspectCoords(k)[1]), RawEmpty, <<>>),
     SheetRow(NodeId("PROS", k, <<>>), RawNumber(ProspectCoords(k)[1]), RawText, <<>>)}

RECURSIVE OrderLists(_)
OrderLists(n) ==
    IF n = 0 THEN {<<>>} ELSE {Append(f, r) : f \in OrderLists(n - 1), r \in OrderRows(n)}

RECURSIVE ProspectLists(_)
ProspectLists(n) ==
    IF n = 0 THEN {<<>>} ELSE {Append(f, r) : f \in ProspectLists(n - 1), r \in ProspectRows(n)}

\* what the two sheets can hold for the route date: at most MaxStops rows in all
Sheets ==
    UNION {{[orders |-> o, prospects |-> p] : o \in OrderLists(c[1]), p \in ProspectLists(c[2])} :
           c \in {d \in (0..MaxStops) \X (0..MaxStops) : d[1] + d[2] <= MaxStops}}

EmptySheet == [orders |-> <<>>, prospects |-> <<>>]

\* if lat_raw and lng_raw: float(lat_raw), float(lng_raw) without ValueError
UsableCoords(row) ==
    /\ row.Latitud.kind # "empty" /\ row.Longitud.kind # "empty"
    /\ row.Latitud.kind = "number" /\ row.Longitud.kind = "number"

OrderDelivery(o) == Delivery(o.id, Rat(o.Latitud.v), Rat(o.Longitud.v), "order", o.Zona)

ProspectDelivery(p) == Delivery(p.id, Rat(p.Latitud.v), Rat(p.Longitud.v), "prospect", <<>>)

\* the two loops that fill deliveries from the orders and the prospects
FetchDeliveries(sheet) ==
    LET orders    == SelectSeq(sheet.orders, UsableCoords)
        prospects == SelectSeq(sheet.prospects, UsableCoords)
    IN  [k \in DOMAIN orders |-> OrderDelivery(orders[k])]
            \o [k \in DOMAIN prospects |-> ProspectDelivery(prospects[k])]

(***************************************************************************)
(* main.py optimize_route: persistence, response, and the whole handler    *)
(***************************************************************************)
MsgNothingToOptimize == Msg("No hay pedidos confirmados para optimizar", 0)

MsgRouteOptimized(n) == Msg("Ruta optimizada: {n} entregas + waypoint de seguridad", n)

\* what the caller of optimize_route gets: an OptimizeRouteResponse, or the
\* exception that left the handler (error # "")
Response(error, success, message, optimized_order, total_distance_km, total_time_minutes) ==
    [error |-> error, success |-> success, message |-> message,
     optimized_order |-> optimized_order, total_distance_km |-> total_distance_km,
     total_time_minutes |-> total_time_minutes]

FailureResponse(message) == Response("", FALSE, message, <<>>, 0, 0)

ExceptionResponse(error) == Response(error, FALSE, Msg("", 0), <<>>, 0, 0)

\* round(a / b): to the nearest integer, halves to the even one
RoundDiv(a, b) ==
    LET q == a \div b
        r == a % b
    IN  IF 2 * r < b THEN q
        ELSE IF 2 * r > b THEN q + 1
        ELSE IF q % 2 = 0 THEN q ELSE q + 1

\* (mutant) the waypoint numbered for the sheet like a stop
SinkCountedNotDepot(node) == ~node.is_depot

\* the nodes counted when the visit orders for the sheet are numbered
SinkCounted(node) == ~node.is_depot /\ ~node.is_security_waypoint

\* the nodes counted when the response's visit_order is numbered
ResponseCounted(node) == ~node.is_depot

\* the updates list built for batch_update_visit_orders
SinkUpdates(ordered_nodes) ==
    LET counted == SelectSeq(ordered_nodes, SinkCounted)
    IN  [k \in DOMAIN counted |-> [order_id |-> counted[k].id, orden_visita |-> k]]

\* the value of visit_num after the first k nodes of the response loop
VisitNum(ordered_nodes, k) == Len(SelectSeq(SubSeq(ordered_nodes, 1, k), ResponseCounted))

\* next((d["type"] for d in all_deliveries_flat if d["id"] == node.id), "unknown")
NodeType(node, all_deliveries_flat) ==
    LET same == SelectSeq(all_deliveries_flat, LAMBDA d : d.id = node.id)
    IN  IF same = <<>> THEN "unknown" ELSE same[1].type

\* one node_data dict; visit_order is absent (<<>>) or present (<<number>>)
NodeData(ordered_nodes, k, all_deliveries_flat) ==
    LET node == ordered_nodes[k]
    IN  [id |-> node.id, lat |-> node.lat, lng |-> node.lng,
         is_depot |-> node.is_depot, is_security_waypoint |-> node.is_security_waypoint,
         type |-> NodeType(node, all_deliveries_flat),
         visit_order |-> IF ResponseCounted(node) THEN <<VisitNum(ordered_nodes, k)>>
                                                  ELSE <<>>]

\* the response of a solved request; d["type"] raises KeyError on a delivery dict
\* without that key
BuildResponse(result, ordered_nodes, deliveries) ==
    IF \E k \in DOMAIN ordered_nodes : NodeType(ordered_nodes[k], deliveries) = "missing"
    THEN ExceptionResponse("KeyError")
    ELSE Response("", TRUE, MsgRouteOptimized(Len(deliveries)),
                  [k \in DOMAIN ordered_nodes |-> NodeData(ordered_nodes, k, deliveries)],
                  RoundDiv(result.total_distance_meters, 10),
                  RoundDiv(result.total_time_seconds, 6))

\* the solver's result of a request that never reached the solver
NoSolveOutcome == SolveOutcome(FALSE, FALSE, FALSE, FALSE, Msg("", 0), <<>>, 0, 0, <<>>)

\* (mutant) the empty-input return left out
NothingToOptimizeNever(deliveries) == FALSE

\* if not deliveries
NothingToOptimize(deliveries) == deliveries = <<>>

\* request.origin_lat and request.origin_lng
OriginGiven(request) ==
    /\ request.origin_lat # <<>> /\ request.origin_lat[1] # 0
    /\ request.origin_lng # <<>> /\ request.origin_lng[1] # 0

DepotLocation(request) ==
    IF OriginGiven(request) THEN <<Rat(request.origin_lat[1]), Rat(request.origin_lng[1])>>
    ELSE WarehouseLocation

\* the record of one optimize_route request, from its arrival to its response;
\* solve_args holds the arguments of each call of solver.solve the handler made
RouteRecord(in, fetched, deliveries, grouping, locations, api_requests, matrix_built, distance_matrix, solve_args, result, ordered_nodes_expanded, sink_calls, response) ==
    [pc |-> "done", clients |-> in.clients, request |-> in.request, sheet |-> in.sheet,
     env |-> in.env, fetched |-> fetched, deliveries |-> deliveries,
     final_nodes_for_solver |-> grouping.final_nodes_for_solver,
     solver_nodes_map |-> grouping.solver_nodes_map,
     locations |-> locations, api_requests |-> api_requests, matrix_built |-> matrix_built,
     distance_matrix |-> distance_matrix, solver_calls |-> Len(solve_args),
     solve_args |-> solve_args, result |-> result,
     ordered_nodes_expanded |-> ordered_nodes_expanded, sink_calls |-> sink_calls,
     sink_raised |-> (sink_calls # <<>> /\ in.env.sink_raises),
     response |-> response]

NoGrouping == [solver_nodes_map |-> <<>>, final_nodes_for_solver |-> <<>>]

\* (mutant) the expanded result built anew, its route sequence left empty
ExpandResultRebuilt(out, ordered_nodes_expanded) ==
    [out EXCEPT !.ordered_nodes = ordered_nodes_expanded, !.route_sequence = <<>>]

\* result.ordered_nodes = ordered_nodes_expanded
ExpandResult(out, ordered_nodes_expanded) ==
    [out EXCEPT !.ordered_nodes = ordered_nodes_expanded]

\* (mutant) the failure return left out
SolveFailedNever(out) == FALSE

\* if not result.success
SolveFailed(out) == ~out.success

\* (mutant) an exception of batch_update_visit_orders not caught
AfterPersistPropagates(sink_raised, response) ==
    IF sink_raised THEN ExceptionResponse("Exception") ELSE response

\* try: batch_update_visit_orders(updates) / except Exception: print(...): the
\* handler goes on to build its response whether or not the sink raised
AfterPersist(sink_raised, response) == response

\* from the solver's result to the response: failure return, expansion, the visit
\* orders sent to the sheet, and the response; call holds the solver instance and
\* the arguments of solver.solve(delivery_nodes, distance_matrix), and is
\* recorded together with what the call returned
AfterSolve(in, use_demo, deliveries, grouping, locations, api_requests, call, out) ==
    LET made == [self |-> call.self, delivery_nodes |-> call.delivery_nodes,
                 distance_matrix |-> call.distance_matrix, out |-> out]
    IN  IF out.raised
        THEN RouteRecord(in, TRUE, deliveries, grouping, locations, api_requests, TRUE,
                         call.distance_matrix, <<made>>, out, <<>>, <<>>,
                         ExceptionResponse(out.message.text))
        ELSE IF SolveFailed(out)
        THEN RouteRecord(in, TRUE, deliveries, grouping, locations, api_requests, TRUE,
                         call.distance_matrix, <<made>>, out, <<>>, <<>>,
                         FailureResponse(out.message))
        ELSE LET expanded == ExpandNodes(out.ordered_nodes, grouping.solver_nodes_map)
                 result   == ExpandResult(out, expanded)
                 sink     == IF in.clients.sheets /\ ~use_demo
                             THEN <<SinkUpdates(expanded)>> ELSE <<>>
                 raised   == sink # <<>> /\ in.env.sink_raises
             IN  RouteRecord(in, TRUE, deliveries, grouping, locations, api_requests, TRUE,
                             call.distance_matrix, <<made>>, result, expanded, sink,
                             AfterPersist(raised,
                                          BuildResponse(result, expanded, deliveries)))

\* (mutant) the waypoint left out of the locations the matrix is built over
RouteLocationsNoWaypoint(depot, deliveries_for_solver) ==
    <<depot>> \o [k \in DOMAIN deliveries_for_solver |->
                     <<deliveries_for_solver[k].lat, deliveries_for_solver[k].lng>>]

\* locations = [(depot_lat, depot_lng), (HUICHAPAN_LAT, HUICHAPAN_LNG)] extended
\* by the coordinates of deliveries_for_solver
RouteLocations(depot, deliveries_for_solver) ==
    <<depot, HuichapanLocation>>
        \o [k \in DOMAIN deliveries_for_solver |->
               <<deliveries_for_solver[k].lat, deliveries_for_solver[k].lng>>]

\* optimize_route: every way the handler can run for the request in
OptimizeRouteRuns(in) ==
    LET use_demo == in.request.test_mode \/ ~in.clients.sheets
    IN  IF ~use_demo /\ in.env.sheets_raises
        THEN \* except Exception: traceback.print_exc() -- traceback is not imported
             {RouteRecord(in, FALSE, <<>>, NoGrouping, <<>>, <<>>, FALSE, <<>>, <<>>,
                          NoSolveOutcome, <<>>, <<>>, ExceptionResponse("NameError"))}
        ELSE
        LET deliveries == IF use_demo THEN DemoDeliveries ELSE FetchDeliveries(in.sheet)
        IN  IF NothingToOptimize(deliveries)
            THEN {RouteRecord(in, TRUE, deliveries, NoGrouping, <<>>, <<>>, FALSE, <<>>, <<>>,
                              NoSolveOutcome, <<>>, <<>>,
                              FailureResponse(MsgNothingToOptimize))}
            ELSE
            LET grouping       == GroupDeliveries(deliveries)
                for_solver     == grouping.final_nodes_for_solver
                delivery_nodes == [k \in DOMAIN for_solver |-> PlainNode(for_solver[k])]
                depot          == DepotLocation(in.request)
                locations      == RouteLocations(depot, for_solver)
                use_api        == in.clients.distance /\ ~use_demo
                api            == GetFullMatrix(locations, in.env.svc)
            IN  IF use_api /\ api.raised
                THEN \* except Exception: traceback.print_exc() -- not imported
                     {RouteRecord(in, TRUE, deliveries, grouping, locations, api.requests,
                                  FALSE, <<>>, <<>>, NoSolveOutcome, <<>>, <<>>,
                                  ExceptionResponse("NameError"))}
                ELSE
                LET distance_matrix == IF use_api THEN api.distances
                                       ELSE CalculateHaversineMatrix(locations)
                    api_requests    == IF use_api THEN api.requests ELSE <<>>
                    solver          == VRPSolver(depot, <<HuichapanLocation>>)
                    call            == [self |-> solver, delivery_nodes |-> delivery_nodes,
                                        distance_matrix |-> distance_matrix]
                IN  {AfterSolve(in, use_demo, deliveries, grouping, locations, api_requests,
                                call, out) :
                        out \in Solve(solver, delivery_nodes, distance_matrix)}

\* an origin far from the region (hundredths of a degree)
FarOrigin == <<-3387, 15121>>

Requests ==
    {[test_mode |-> t, origin_lat |-> o[1], origin_lng |-> o[2]] :
        t \in BOOLEAN, o \in {<<<<>>, <<>>>>, <<<<FarOrigin[1]>>, <<FarOrigin[2]>>>>}}

\* The requests that arrive, with the clients the service started with and how
\* the collaborators behave during the request.  A behaviour the request cannot
\* meet is fixed to its default; a raising sink is tried with a service that
\* answers every pair.
RouteInit ==
    /\ sv = Idle
    /\ fm = Idle
    /\ srv = Idle
    /\ db = Idle
    /\ \E clients \in [sheets : BOOLEAN, distance : BOOLEAN], request \in Requests,
          sheet \in Sheets, svc \in ServiceKinds, sheets_raises \in BOOLEAN,
          sink_raises \in BOOLEAN :
         LET live == clients.sheets /\ ~request.test_mode
         IN  /\ ~live => (sheet = EmptySheet /\ ~sheets_raises /\ ~sink_raises)
             /\ sheets_raises => (sheet = EmptySheet /\ ~sink_raises)
             /\ (~live \/ ~clients.distance \/ sheets_raises) => svc = "ok"
             /\ sink_raises => (svc = "ok" /\ FetchDeliveries(sheet) # <<>>)
             /\ route = [pc |-> "received", clients |-> clients, request |-> request,
                         sheet |-> sheet,
                         env |-> [svc |-> svc, sheets_raises |-> sheets_raises,
                                  sink_raises |-> sink_raises]]

\* the handler runs to its end
OptimizeRoute ==
    /\ route.pc = "received"
    /\ route' \in OptimizeRouteRuns(route)
    /\ UNCHANGED <<sv, fm, srv, db>>

Next == OptimizeRoute

Spec == RouteInit /\ [][Next]_vars

RouteDone == route.pc = "done"

\* the request was solved and answered with a response
RouteSolved == RouteDone /\ route.result.success

(***************************************************************************)
(* main.py: optimize_route requests on the running service (SpecServe)     *)
(***************************************************************************)
\* uvicorn.run("app.main:app", ...) starts one process with one event-loop
\* thread.  optimize_route is an `async def` handler without any await: once the
\* event loop starts it, it runs on the event-loop thread up to its return,
\* the call of solver.solve included.

\* most requests sent to the service
MaxRequests == 3

\* parts the clock divides the search's time limit into
MaxTicks == 3

\* search_parameters.time_limit.seconds
TimeLimitSeconds == 900

TickSeconds == TimeLimitSeconds \div MaxTicks

RequestIds == 1..MaxRequests

ServeInit ==
    /\ route = Idle
    /\ sv = Idle
    /\ fm = Idle
    /\ db = Idle
    /\ srv = [pc |-> "serving", loop |-> <<>>, elapsed |-> 0,
              phase |-> [r \in RequestIds |-> "unsent"]]

\* a client sends POST /api/optimize-route
Arrive(r) ==
    /\ srv.pc = "serving"
    /\ srv.phase[r] = "unsent"
    /\ srv' = [srv EXCEPT !.phase[r] = "accepted"]
    /\ UNCHANGED <<route, sv, fm, db>>

\* the event loop, running no handler, starts the handler of a waiting request
StartHandler(r) ==
    /\ srv.pc = "serving"
    /\ srv.loop = <<>>
    /\ srv.phase[r] = "accepted"
    /\ srv' = [srv EXCEPT !.loop = <<r>>, !.phase[r] = "preparing"]
    /\ UNCHANGED <<route, sv, fm, db>>

\* the handler has fetched, grouped and built the matrix, and calls
\* solver.solve(delivery_nodes, distance_matrix) on the thread it runs on
EnterSearch(r) ==
    /\ srv.pc = "serving"
    /\ srv.loop = <<r>>
    /\ srv.phase[r] = "preparing"
    /\ srv' = [srv EXCEPT !.phase[r] = "searching", !.elapsed = 0]
    /\ UNCHANGED <<route, sv, fm, db>>

\* time passes while routing.SolveWithParameters runs, up to the time limit
SearchTick(r) ==
    /\ srv.pc = "serving"
    /\ srv.phase[r] = "searching"
    /\ srv.elapsed < TimeLimitSeconds
    /\ srv' = [srv EXCEPT !.elapsed = Min(srv.elapsed + TickSeconds, TimeLimitSeconds)]
    /\ UNCHANGED <<route, sv, fm, db>>

\* SolveWithParameters returns, at the time limit at the latest, and the handler
\* goes on to expansion, persistence and the response
SearchEnds(r) ==
    /\ srv.pc = "serving"
    /\ srv.loop = <<r>>
    /\ srv.phase[r] = "searching"
    /\ srv' = [srv EXCEPT !.phase[r] = "finishing", !.elapsed = 0]
    /\ UNCHANGED <<route, sv, fm, db>>

\* the handler returns its response and the event loop is free again
Respond(r) ==
    /\ srv.pc = "serving"
    /\ srv.loop = <<r>>
    /\ srv.phase[r] = "finishing"
    /\ srv' = [srv EXCEPT !.loop = <<>>, !.phase[r] = "responded"]
    /\ UNCHANGED <<route, sv, fm, db>>

ServeNext ==
    \E r \in RequestIds :
        \/ Arrive(r)
        \/ StartHandler(r)
        \/ EnterSearch(r)
        \/ SearchTick(r)
        \/ SearchEnds(r)
        \/ Respond(r)

SpecServe == ServeInit /\ [][ServeNext]_vars

\* C17 (as claimed): while a request is inside the solver search, the search does
\* not occupy the thread that serves requests, so the handler of any other
\* waiting request can be started.
C17_SearchOffServingThread ==
    srv.pc = "serving" =>
        \A r \in RequestIds :
            srv.phase[r] = "searching" =>
                /\ srv.loop # <<r>>
                /\ \A q \in RequestIds : srv.phase[q] = "accepted" => ENABLED StartHandler(q)

(***************************************************************************)
(* Claims about optimize_route (checked under Spec)                        *)
(***************************************************************************)
Ids(seq) == [k \in DOMAIN seq |-> seq[k].id]

Count(seq, x) == Cardinality({k \in DOMAIN seq : seq[k] = x})

\* the stops of the expanded route: its nodes other than depot and waypoint
ExpandedStops == SelectSeq(route.ordered_nodes_expanded, SinkCounted)

\* the request got as far as grouping a non-empty stop list
RouteGrouped == RouteDone /\ route.fetched /\ route.deliveries # <<>>

\* the zone key of a stop, from its label: trimmed, then lowercased
KeyOf(d) == Lower(Strip(d.zona))

HasZone(d) == Strip(d.zona) # <<>>

\* the positions in the input stop list of the stops with zone key z
ZoneMembers(z) ==
    {k \in DOMAIN route.deliveries :
        HasZone(route.deliveries[k]) /\ KeyOf(route.deliveries[k]) = z}

SharedZoneKeys ==
    {z \in {KeyOf(route.deliveries[k]) : k \in DOMAIN route.deliveries} :
        Cardinality(ZoneMembers(z)) >= 2}

\* the positions in the reduced node list of the proxy nodes of zone key z
ProxiesOf(z) ==
    {p \in DOMAIN route.final_nodes_for_solver :
        /\ route.final_nodes_for_solver[p].type = "group"
        /\ route.final_nodes_for_solver[p].id = ProxyId(z)}

LatSum(members) ==
    SeqSum([k \in DOMAIN route.deliveries |->
               IF k \in members THEN route.deliveries[k].lat.n ELSE 0])

LngSum(members) ==
    SeqSum([k \in DOMAIN route.deliveries |->
               IF k \in members THEN route.deliveries[k].lng.n ELSE 0])

\* C2: after grouping, solving and expansion, the identifiers of the nodes of
\* the expanded list other than depot and waypoint are, as a multiset, exactly
\* the identifiers of the input stops, and none of them is a proxy identifier.
C2_ExpansionKeepsStops ==
    RouteSolved =>
        /\ Len(ExpandedStops) = Len(route.deliveries)
        /\ \A id \in RangeOf(Ids(ExpandedStops)) \cup RangeOf(Ids(route.deliveries)) :
              /\ Count(Ids(ExpandedStops), id) = Count(Ids(route.deliveries), id)
              /\ id.kind # "GROUP"

\* C2 witness: a solved request of three or more stops whose reduced node list
\* held a proxy node
C2_Witness ==
    /\ RouteSolved
    /\ Len(route.deliveries) >= 3
    /\ \E p \in DOMAIN route.final_nodes_for_solver :
          route.final_nodes_for_solver[p].id.kind = "GROUP"
    /\ Len(ExpandedStops) = Len(route.deliveries)

\* C3: each zone key shared by two or more stops yields exactly one proxy node in
\* the reduced node list, whose latitude and longitude are the arithmetic means
\* of its members'; labels that differ only in case or surrounding whitespace
\* share a key.
C3_OneProxyPerSharedZone ==
    RouteGrouped =>
        \A z \in SharedZoneKeys :
            /\ Cardinality(ProxiesOf(z)) = 1
            /\ \A p \in ProxiesOf(z) :
                  LET proxy == route.final_nodes_for_solver[p]
                      n     == Cardinality(ZoneMembers(z))
                  IN  /\ proxy.lat.n * n = LatSum(ZoneMembers(z)) * proxy.lat.d
                      /\ proxy.lng.n * n = LngSum(ZoneMembers(z)) * proxy.lng.d

\* C3 witness: two stops whose labels differ (in case and whitespace) but share a
\* zone key were grouped into a proxy node
C3_Witness ==
    /\ RouteGrouped
    /\ \E a, b \in DOMAIN route.deliveries :
          /\ a # b
          /\ route.deliveries[a].zona # route.deliveries[b].zona
          /\ HasZone(route.deliveries[a]) /\ HasZone(route.deliveries[b])
          /\ KeyOf(route.deliveries[a]) = KeyOf(route.deliveries[b])
          /\ ProxiesOf(KeyOf(route.deliveries[a])) # {}

\* the stop at position k of the input is emitted as its own plain node, mapped
\* to the one-element list holding itself
EmittedPlain(k) ==
    LET d == route.deliveries[k]
    IN  /\ \E p \in DOMAIN route.final_nodes_for_solver : route.final_nodes_for_solver[p] = d
        /\ DictGet(route.solver_nodes_map, d.id, <<>>) = <<d>>

\* the stop at position k has no zone, or is the only stop of its zone
AloneInZone(k) ==
    \/ ~HasZone(route.deliveries[k])
    \/ Cardinality(ZoneMembers(KeyOf(route.deliveries[k]))) = 1

InSomeProxy(k) ==
    \E e \in DOMAIN route.solver_nodes_map :
        /\ route.solver_nodes_map[e].key.kind = "GROUP"
        /\ route.deliveries[k] \in RangeOf(route.solver_nodes_map[e].value)

\* C4: a stop is emitted as its own plain node (own identifier and coordinates,
\* mapped to the list holding only itself) exactly when its trimmed label is
\* empty or its zone key has one member, and such a stop is in no proxy node.
C4_PlainIffAlone ==
    RouteGrouped =>
        \A k \in DOMAIN route.deliveries :
            /\ EmittedPlain(k) <=> AloneInZone(k)
            /\ AloneInZone(k) => ~InSomeProxy(k)

\* C4 witness: the only stop of a zone was emitted as a plain node next to a proxy
\* node of another zone
C4_Witness ==
    /\ RouteGrouped
    /\ \E k \in DOMAIN route.deliveries :
          /\ HasZone(route.deliveries[k]) /\ AloneInZone(k) /\ EmittedPlain(k)
    /\ \E j \in DOMAIN route.deliveries : InSomeProxy(j)

\* the nodes in the order the solver chose: route_sequence without its final 0,
\* indexing [depot, waypoint, ...reduced nodes]
SolvedOrder == SubSeq(route.result.route_sequence, 1, Len(route.result.route_sequence) - 1)

\* the identifiers a solved node stands for, in input order
StandsFor(index) ==
    IF index = 0 THEN <<NodeId("DEPOT", 0, <<>>)>>
    ELSE IF index = 1 THEN <<NodeId("WAYPOINT_HUICHAPAN", 0, <<>>)>>
    ELSE LET node == route.final_nodes_for_solver[index - 1]
         IN  IF node.id.kind = "GROUP"
             THEN Ids(SelectSeq(route.deliveries,
                                LAMBDA d : HasZone(d) /\ KeyOf(d) = node.id.key))
             ELSE <<node.id>>

\* C5: expansion replaces every proxy node of the solved route, at its own
\* position, by all its members in their input order: the expanded list is the
\* solver's order with each node replaced by the stops it stands for.
C5_ExpansionInPlace ==
    RouteSolved =>
        Ids(route.ordered_nodes_expanded)
            = Flatten([k \in DOMAIN SolvedOrder |-> StandsFor(SolvedOrder[k])])

\* C5 witness: in a solved route a proxy whose members were not adjacent in the
\* input was visited before another node
C5_Witness ==
    /\ RouteSolved
    /\ \E k \in DOMAIN SolvedOrder :
          /\ k < Len(SolvedOrder)
          /\ SolvedOrder[k] >= 2
          /\ route.final_nodes_for_solver[SolvedOrder[k] - 1].id.kind = "GROUP"
    /\ \E a, b, c \in DOMAIN route.deliveries :
          /\ a < b /\ b < c
          /\ HasZone(route.deliveries[a])
          /\ KeyOf(route.deliveries[a]) = KeyOf(route.deliveries[c])
          /\ HasZone(route.deliveries[c])
          /\ ~HasZone(route.deliveries[b])

\* C6 (as claimed): in the returned optimized_order the depot and the waypoint
\* carry no visit number and the other nodes carry 1, 2, 3, ... in list order.
C6_VisitNumbersSkipWaypoint ==
    (RouteDone /\ route.response.success) =>
        \A k \in DOMAIN route.response.optimized_order :
            LET node   == route.response.optimized_order[k]
                before == SubSeq(route.response.optimized_order, 1, k)
            IN  node.visit_order =
                    IF node.is_depot \/ node.is_security_waypoint THEN <<>>
                    ELSE <<Len(SelectSeq(before, SinkCounted))>>

\* C9: a request that ends up with zero stops returns success = false with the
\* 'nothing to optimize' message and an empty list, having issued no distance
\* matrix request, built no matrix, called no solver and sent nothing to the
\* persistence sink.
C9_NoStopsNoWork ==
    (RouteDone /\ route.fetched /\ route.deliveries = <<>>) =>
        /\ route.response = FailureResponse(MsgNothingToOptimize)
        /\ route.response.optimized_order = <<>>
        /\ route.api_requests = <<>>
        /\ ~route.matrix_built
        /\ route.solver_calls = 0
        /\ ~route.result.model_built /\ ~route.result.search_run
        /\ route.sink_calls = <<>>

\* C9 witness: with both clients connected, a request whose sheet rows all lack
\* usable coordinates was answered 'nothing to optimize'
C9_Witness ==
    /\ RouteDone /\ route.fetched /\ route.deliveries = <<>>
    /\ route.clients.sheets /\ route.clients.distance /\ ~route.request.test_mode
    /\ route.sheet.orders # <<>>
    /\ route.response.message = MsgNothingToOptimize

\* the positions in the input stop list of the stops the reduced node at
\* position p stands for, and the first of them
MembersAt(p) ==
    LET items == DictGet(route.solver_nodes_map, route.final_nodes_for_solver[p].id, <<>>)
    IN  {k \in DOMAIN route.deliveries : route.deliveries[k] \in RangeOf(items)}

FirstSeen(p) == CHOOSE k \in MembersAt(p) : \A m \in MembersAt(p) : k <= m

\* C18 (as claimed): the reduced node list is ordered by first appearance in the
\* input: a node whose first member appears earlier in the input precedes every
\* node whose first member appears later, zone or no zone.
C18_FirstSeenOrder ==
    RouteGrouped =>
        \A p, q \in DOMAIN route.final_nodes_for_solver :
            p < q => FirstSeen(p) < FirstSeen(q)

\* the nodes solve() indexes in the call the handler made
RouteSolverNodes ==
    LET call == route.solve_args[1]
    IN  <<call.self.depot>> \o call.self.security_waypoint \o call.delivery_nodes

\* the distance between the nodes at matrix indices i and j that the matrix source
\* of the request gives: the service's answer when the service was asked and
\* answers every pair, else the haversine metres
RouteExpectedCell(i, j) ==
    LET a == <<RouteSolverNodes[i].lat, RouteSolverNodes[i].lng>>
        b == <<RouteSolverNodes[j].lat, RouteSolverNodes[j].lng>>
    IN  IF route.api_requests # <<>> THEN ServiceDistance(a, b)
        ELSE IF i = j THEN 0 ELSE HaversineMeters(a, b)

\* C19: the matrix optimize_route passes to solve() is built over [depot,
\* waypoint, ...reduced nodes] in the order solve() indexes its nodes, with the
\* depot coordinates given to the solver, and has dimension 2 + the number of
\* reduced nodes; the matrix-size error never comes out of optimize_route.
C19_MatrixOverSolverNodes ==
    RouteDone =>
        /\ route.result.message # MsgMatrixError
        /\ route.response.message # MsgMatrixError
        /\ route.solver_calls = 1 =>
              LET matrix == route.solve_args[1].distance_matrix
                  n      == 2 + Len(route.final_nodes_for_solver)
              IN  /\ Len(RouteSolverNodes) = n
                  /\ Len(route.locations) = n
                  /\ \A k \in 1..n :
                        route.locations[k] = <<RouteSolverNodes[k].lat, RouteSolverNodes[k].lng>>
                  /\ route.locations[1] = DepotLocation(route.request)
                  /\ \A k \in 1..(n - 2) :
                        RouteSolverNodes[k + 2].id = route.final_nodes_for_solver[k].id
                  /\ Len(matrix) = n
                  /\ \A i \in 1..n : Len(matrix[i]) = n
                  /\ route.env.svc = "ok" =>
                        \A i, j \in 1..n : matrix[i][j] = RouteExpectedCell(i, j)

\* C19 witness: a live request with a caller-given origin whose reduced list
\* holds a proxy and a plain stop reached solve() with a service-built matrix of
\* dimension 4
C19_Witness ==
    /\ RouteDone /\ route.solver_calls = 1
    /\ OriginGiven(route.request)
    /\ route.api_requests # <<>>
    /\ Len(route.final_nodes_for_solver) = 2
    /\ \E p \in DOMAIN route.final_nodes_for_solver :
          route.final_nodes_for_solver[p].id.kind = "GROUP"
    /\ Len(route.solve_args[1].distance_matrix) = 4
    /\ route.solve_args[1].self.depot.lat = Rat(FarOrigin[1])

\* a label with the same zone key in another case and with other whitespace
Relabel(zona) ==
    IF zona = <<"C">> THEN <<" ", "c", " ">>
    ELSE IF zona = <<" ", "c", " ">> THEN <<"C">>
    ELSE IF zona = <<"N">> THEN <<"n", " ">>
    ELSE zona

\* another stop list with the same zones: the stops in reverse order, with other
\* identifiers, other coordinates and relabelled zones
Variant(ds) ==
    [k \in DOMAIN ds |->
        LET d == ds[Len(ds) + 1 - k]
        IN  Delivery(NodeId(d.id.kind, d.id.num + 10, d.id.key),
                     [n |-> d.lat.n + 3 * k, d |-> d.lat.d],
                     [n |-> d.lng.n - 7 * k, d |-> d.lng.d],
                     d.type, Relabel(d.zona))]

\* the identifiers of the proxy nodes of a reduced node list, and the proxy keys
\* of a node map
GroupIds(nodes) == {nodes[k].id : k \in {j \in DOMAIN nodes : nodes[j].type = "group"}}

GroupKeys(map) == {map[k].key : k \in {j \in DOMAIN map : Len(map[j].value) >= 2}}

\* C20: the identifier of a proxy node is "GROUP_" followed by the normalized
\* zone key and depends on nothing else: a stop list with the same zones whose
\* members differ in identifiers, coordinates, order and label case/whitespace
\* yields the same proxy identifiers.
C20_ProxyIdFromKeyAlone ==
    RouteGrouped =>
        LET other == GroupDeliveries(Variant(route.deliveries))
        IN  /\ GroupIds(route.final_nodes_for_solver)
                  = {NodeId("GROUP", 0, z) : z \in SharedZoneKeys}
            /\ GroupKeys(route.solver_nodes_map) = GroupIds(route.final_nodes_for_solver)
            /\ GroupIds(other.final_nodes_for_solver) = GroupIds(route.final_nodes_for_solver)
            /\ GroupKeys(other.solver_nodes_map) = GroupKeys(route.solver_nodes_map)

\* C20 witness: a zone of two stops with different labels was proxied, next to a
\* stop outside it, and the other stop list differs from the input in the
\* identifier, coordinates and label of its first stop
C20_Witness ==
    /\ RouteGrouped
    /\ Len(route.deliveries) = 3
    /\ Cardinality(GroupIds(route.final_nodes_for_solver)) = 1
    /\ Len(route.final_nodes_for_solver) = 2
    /\ \E a, b \in DOMAIN route.deliveries :
          /\ KeyOf(route.deliveries[a]) = KeyOf(route.deliveries[b])
          /\ HasZone(route.deliveries[a])
          /\ route.deliveries[a].zona # route.deliveries[b].zona
    /\ Variant(route.deliveries)[1].id # route.deliveries[1].id
    /\ Variant(route.deliveries)[1].zona # route.deliveries[1].zona
    /\ Variant(route.deliveries)[1].lat # route.deliveries[1].lat

\* what solve() returned to the handler, before expansion
RouteSolveOut == route.solve_args[1].out

IsFixedNode(node) == node.is_depot \/ node.is_security_waypoint

\* C21: expansion changes only the ordered node list of the solver result: the
\* depot and the waypoint stay the same nodes at their positions, and success,
\* message, total_distance_meters, total_time_seconds and route_sequence keep
\* the values solve() produced.
C21_ExpansionFrame ==
    RouteSolved =>
        /\ route.result.success = RouteSolveOut.success
        /\ route.result.message = RouteSolveOut.message
        /\ route.result.total_distance_meters = RouteSolveOut.total_distance_meters
        /\ route.result.total_time_seconds = RouteSolveOut.total_time_seconds
        /\ route.result.route_sequence = RouteSolveOut.route_sequence
        /\ route.result.ordered_nodes = route.ordered_nodes_expanded
        /\ \A k \in DOMAIN RouteSolveOut.ordered_nodes :
              IsFixedNode(RouteSolveOut.ordered_nodes[k]) =>
                  /\ k <= 2
                  /\ route.result.ordered_nodes[k] = RouteSolveOut.ordered_nodes[k]
        /\ \A k \in DOMAIN route.result.ordered_nodes :
              IsFixedNode(route.result.ordered_nodes[k]) => k <= 2

\* C21 witness: a solved route whose expansion replaced a proxy, so that the node
\* list grew while the route sequence stayed the solver's
C21_Witness ==
    /\ RouteSolved
    /\ Len(route.result.ordered_nodes) > Len(RouteSolveOut.ordered_nodes)
    /\ Len(route.result.route_sequence) = Len(RouteSolveOut.ordered_nodes) + 1
    /\ route.result.total_distance_meters > 0

\* the request used the distance client
RouteUsesApi ==
    /\ route.clients.distance /\ route.clients.sheets /\ ~route.request.test_mode
    /\ route.fetched /\ route.deliveries # <<>>

\* C22 (as claimed): when the distance client is configured and get_full_matrix
\* raises, the request falls back to the haversine matrix over the same
\* locations and goes on to the solver; the caller sees no error.
C22_HaversineFallback ==
    (RouteDone /\ RouteUsesApi /\ route.env.svc = "raises") =>
        /\ route.response.error = ""
        /\ route.matrix_built
        /\ route.distance_matrix = CalculateHaversineMatrix(route.locations)
        /\ route.solver_calls = 1

\* the request ran against connected storage
RouteLive == route.clients.sheets /\ ~route.request.test_mode

\* the nodes of the expanded route that are neither the depot nor the waypoint,
\* told by their identifiers
RouteStopNodes ==
    SelectSeq(route.ordered_nodes_expanded,
              LAMBDA node : node.id.kind \notin {"DEPOT", "WAYPOINT_HUICHAPAN"})

\* C23: when optimize_route succeeds against connected storage, the update list
\* handed to batch_update_visit_orders holds every input stop identifier exactly
\* once, never the depot or the waypoint, in expanded route order, with
\* orden_visita 1, 2, ..., n.
C23_SinkUpdatesNumbered ==
    (RouteDone /\ RouteLive /\ route.response.success) =>
        /\ Len(route.sink_calls) = 1
        /\ LET updates == route.sink_calls[1]
           IN  /\ Len(updates) = Len(route.deliveries)
               /\ Len(updates) = Len(RouteStopNodes)
               /\ \A k \in DOMAIN updates :
                     /\ updates[k].orden_visita = k
                     /\ updates[k].order_id = RouteStopNodes[k].id
                     /\ updates[k].order_id.kind \notin {"DEPOT", "WAYPOINT_HUICHAPAN"}
               /\ \A d \in DOMAIN route.deliveries :
                     Cardinality({k \in DOMAIN updates :
                                     updates[k].order_id = route.deliveries[d].id}) = 1

\* C23 witness: a successful live request of three stops, two of them in one
\* zone, whose update list does not start with the first input stop
C23_Witness ==
    /\ RouteDone /\ RouteLive /\ route.response.success
    /\ Len(route.deliveries) = 3
    /\ SharedZoneKeys # {}
    /\ Len(route.sink_calls) = 1
    /\ route.sink_calls[1][1].order_id # route.deliveries[1].id
    /\ route.sink_calls[1][3].orden_visita = 3

\* C24 (as claimed): in demo mode (test_mode set, or no storage client) the
\* request runs the pipeline over the built-in deliveries and returns an
\* OptimizeRouteResponse: it never ends with an unhandled error and never calls
\* the persistence sink.
C24_DemoModeAnswers ==
    (RouteDone /\ ~RouteLive) =>
        /\ route.deliveries = DemoDeliveries
        /\ route.solver_calls = 1
        /\ route.sink_calls = <<>>
        /\ route.response.error = ""

\* the input stops the reduced node at position p stands for: the members of its
\* zone for a proxy, the stop itself for a plain node
OwnMembers(p) ==
    LET node == route.final_nodes_for_solver[p]
    IN  IF node.type = "group"
        THEN SelectSeq(route.deliveries, LAMBDA d : HasZone(d) /\ KeyOf(d) = KeyOf(node))
        ELSE <<node>>

\* C26: the node-to-members map has exactly one entry per emitted solver node:
\* every proxy identifier differs from the identifier of every other emitted
\* node, no entry is overwritten, and each node maps to its own members only.
C26_OneEntryPerNode ==
    RouteGrouped =>
        /\ Len(route.solver_nodes_map) = Len(route.final_nodes_for_solver)
        /\ \A p, q \in DOMAIN route.final_nodes_for_solver :
              p # q => route.final_nodes_for_solver[p].id # route.final_nodes_for_solver[q].id
        /\ \A p \in DOMAIN route.final_nodes_for_solver :
              DictGet(route.solver_nodes_map, route.final_nodes_for_solver[p].id, <<>>)
                  = OwnMembers(p)
        /\ RouteSolved =>
              \A k \in DOMAIN RouteSolveOut.ordered_nodes :
                  k > 2 =>
                     Ids(ExpandNode(RouteSolveOut.ordered_nodes[k], route.solver_nodes_map))
                         = Ids(OwnMembers(RouteSolveOut.route_sequence[k] - 1))

\* C26 witness: a proxy of two stops and a plain stop that is alone in another
\* zone were emitted, each with its own map entry
C26_Witness ==
    /\ RouteGrouped
    /\ Len(route.solver_nodes_map) = 2
    /\ \E p, q \in DOMAIN route.final_nodes_for_solver :
          /\ route.final_nodes_for_solver[p].type = "group"
          /\ route.final_nodes_for_solver[q].type = "order"
          /\ HasZone(route.final_nodes_for_solver[q])
          /\ Len(DictGet(route.solver_nodes_map, route.final_nodes_for_solver[p].id, <<>>)) = 2

\* the same request, with the same grouping, matrix and solver outcome, through
\* expansion, persistence and response with a sink that does not raise
RouteWithWorkingSink ==
    AfterSolve([route EXCEPT !.env.sink_raises = FALSE], FALSE, route.deliveries,
               [solver_nodes_map |-> route.solver_nodes_map,
                final_nodes_for_solver |-> route.final_nodes_for_solver],
               route.locations, route.api_requests,
               [self |-> route.solve_args[1].self,
                delivery_nodes |-> route.solve_args[1].delivery_nodes,
                distance_matrix |-> route.solve_args[1].distance_matrix],
               RouteSolveOut)

\* C30: if the persistence sink raises while the visit orders are written, the
\* request returns the successful response (ordered stops, distance, time) it
\* returns when the write succeeds.
C30_SinkFailureKeepsResponse ==
    (RouteDone /\ route.sink_raised) =>
        /\ route.response.error = ""
        /\ route.response.success
        /\ Ids(route.response.optimized_order) = Ids(route.ordered_nodes_expanded)
        /\ ~RouteWithWorkingSink.sink_raised
        /\ RouteWithWorkingSink.sink_calls = route.sink_calls
        /\ RouteWithWorkingSink.result = route.result
        /\ RouteWithWorkingSink.response = route.response

\* C30 witness: the sink raised on a solved live request of two or more stops and
\* the response lists depot, waypoint and the stops
C30_Witness ==
    /\ RouteDone /\ route.sink_raised
    /\ route.response.success
    /\ Len(route.response.optimized_order) >= 4
    /\ route.response.total_distance_km > 0
    /\ Len(route.sink_calls[1]) >= 2

(***************************************************************************)
(* solve() called on its own or from optimize_route (SpecCalls)            *)
(***************************************************************************)
CallsInit == SolveInit \/ RouteInit

CallsNext == SolveCall \/ OptimizeRoute

SpecCalls == CallsInit /\ [][CallsNext]_vars

\* the messages of the three failure causes
FailureMessages == {MsgMatrixError, MsgNotEnoughNodes, MsgNoSolution}

\* solve() returned a result with success = false
SvFailed == SvReturned /\ ~sv.out.raised /\ ~sv.out.success

\* optimize_route got such a result from its solve() call
RouteSolveFailed ==
    /\ RouteDone /\ route.solver_calls = 1
    /\ ~RouteSolveOut.raised /\ ~RouteSolveOut.success

\* C25: every solve() result with success=false has empty ordered_nodes, empty
\* route_sequence and totals 0, whichever of the three causes it reports
\* (matrix mismatch, fewer than 2 nodes, no solution); optimize_route then
\* answers success=false with the solver's message and an empty optimized_order
\* and hands nothing to the persistence sink.
C25_FailuresAreEmpty ==
    /\ SvFailed =>
          /\ sv.out.message \in FailureMessages
          /\ sv.out.ordered_nodes = <<>>
          /\ sv.out.route_sequence = <<>>
          /\ sv.out.total_distance_meters = 0
          /\ sv.out.total_time_seconds = 0
    /\ RouteSolveFailed =>
          /\ RouteSolveOut.message \in FailureMessages
          /\ RouteSolveOut.ordered_nodes = <<>>
          /\ RouteSolveOut.route_sequence = <<>>
          /\ RouteSolveOut.total_distance_meters = 0
          /\ RouteSolveOut.total_time_seconds = 0
          /\ route.response.error = ""
          /\ ~route.response.success
          /\ route.response.message = RouteSolveOut.message
          /\ route.response.optimized_order = <<>>
          /\ route.sink_calls = <<>>

\* C25 witness: a live request with stops whose solve() found no solution and
\* which was answered with that message
C25_Witness ==
    /\ RouteSolveFailed /\ RouteLive
    /\ route.deliveries # <<>>
    /\ RouteSolveOut.message = MsgNoSolution
    /\ route.response.message = MsgNoSolution

(***************************************************************************)
(* google_sheets.py and main.py: the PEDIDOS sheet across calls (SpecSheet) *)
(***************************************************************************)
\* Every handler of main.py is an `async def` without await, so the calls of
\* create_order, optimize_route and complete_delivery run one after another on
\* the event-loop thread; each is one step.

\* most rows of PEDIDOS
MaxOrders == 2

\* most calls served
MaxCalls == 3

\* the route dates optimize_route is asked for, and the texts create_order and
\* the sheet's editors put in the Fecha_Ruta column (one of them padded)
Dates == {<<"1">>, <<"2">>}

StoredDates == {<<"1", " ">>, <<"2">>}

\* CLIENTES: every client has coordinates; the zone labels of the clients
ClientIds == {1, 2}

ClientZona(c) == IF c = 1 THEN <<"C">> ELSE <<"N">>

\* str(o.get("Estatus", "")).strip().lower(), on the status texts the column holds
StatusLower(estatus) ==
    CASE estatus = "Preventa"    -> "preventa"
      [] estatus = "CONFIRMADO " -> "confirmado"
      [] estatus = "En Ruta"     -> "en ruta"
      [] estatus = "Entregado"   -> "entregado"
      [] OTHER                   -> "cancelado"

\* the status texts rows hold before the first call
InitialStatuses == {"Preventa", "CONFIRMADO ", "Cancelado"}

\* (mutant) delivered orders taken for optimization as well
ValidStatusesWithDelivered == {"confirmado", "pendiente", "preventa", "en ruta", "entregado"}

\* valid_statuses of get_orders_for_optimization
ValidStatuses == {"confirmado", "pendiente", "preventa", "en ruta"}

\* a row of PEDIDOS: columns A-E and L (the other columns hold quantities and
\* prices, which no call reads to decide anything)
PedidoRow(id, fecha_ruta, id_cliente, estatus, orden_visita, folio_nota) ==
    [ID_Pedido |-> id, Fecha_Ruta |-> fecha_ruta, ID_Cliente |-> id_cliente,
     Estatus |-> estatus, Orden_Visita |-> orden_visita, Folio_Nota |-> folio_nota]

\* the identifier create_order gives the k-th row: PED-<uuid8>, never reused
OrderId(k) == NodeId("PED", k, <<>>)

\* worksheet.find(id): the row of the first cell that holds the text, 0 for None
\* (identifiers occur in column A only)
Find(pedidos, id) ==
    IF \E k \in DOMAIN pedidos : pedidos[k].ID_Pedido = id
    THEN CHOOSE k \in DOMAIN pedidos :
            /\ pedidos[k].ID_Pedido = id
            /\ \A j \in 1..(k - 1) : pedidos[j].ID_Pedido # id
    ELSE 0

\* get_orders_for_optimization: the rows of the date with an active status,
\* each with the coordinates and the zone of its client
GetOrdersForOptimization(pedidos, fecha_ruta) ==
    LET all_orders == SelectSeq(pedidos, LAMBDA r : Strip(r.Fecha_Ruta) = Strip(fecha_ruta))
        orders     == SelectSeq(all_orders, LAMBDA o : StatusLower(o.Estatus) \in ValidStatuses)
    IN  [k \in DOMAIN orders |->
            SheetRow(orders[k].ID_Pedido, RawNumber(OrderCoords(orders[k].ID_Cliente)[1]),
                     RawNumber(OrderCoords(orders[k].ID_Cliente)[2]),
                     ClientZona(orders[k].ID_Cliente))]

\* what can go wrong during one batch: nothing, or one call to the spreadsheet
\* service raising while the update at position `at` is handled
NoFault == [at |-> 0, kind |-> "none"]

FaultKinds == {"find_raises", "first_write_raises", "second_write_raises"}

Faults(updates) == {NoFault} \cup {[at |-> k, kind |-> f] : k \in DOMAIN updates, f \in FaultKinds}

\* the body of the loop of batch_update_visit_orders for the update at position k
UpdateOne(acc, updates, k, fault) ==
    LET row  == Find(acc.pedidos, updates[k].order_id)
        kind == IF fault.at = k THEN fault.kind ELSE "none"
        first  == [row |-> row, col |-> 5]
        second == [row |-> row, col |-> 4]
    IN  IF kind = "find_raises" \/ row = 0 \/ kind = "first_write_raises"
        THEN acc
        ELSE IF kind = "second_write_raises"
        THEN [acc EXCEPT !.pedidos[row].Orden_Visita = <<updates[k].orden_visita>>,
                         !.writes = Append(@, first)]
        ELSE [pedidos |-> [acc.pedidos EXCEPT
                              ![row].Orden_Visita = <<updates[k].orden_visita>>,
                              ![row].Estatus = "En Ruta"],
              success_count |-> acc.success_count + 1,
              writes |-> acc.writes \o <<first, second>>]

RECURSIVE UpdateLoop(_, _, _, _)
UpdateLoop(acc, updates, k, fault) ==
    IF k > Len(updates) THEN acc
    ELSE UpdateLoop(UpdateOne(acc, updates, k, fault), updates, k + 1, fault)

\* batch_update_visit_orders: the sheet afterwards, the returned count and the
\* cells written (row, column)
BatchUpdateVisitOrders(pedidos, updates, fault) ==
    UpdateLoop([pedidos |-> pedidos, success_count |-> 0, writes |-> <<>>], updates, 1, fault)

\* what db remembers of the last call: the stops optimize_route sequenced, the
\* updates it handed to batch_update_visit_orders, the count that returned and
\* the cells it wrote
LastCall(kind, stops, updates, success_count, writes) ==
    [kind |-> kind, stops |-> stops, updates |-> updates,
     success_count |-> success_count, writes |-> writes]

NoCall == LastCall("none", <<>>, <<>>, 0, <<>>)

\* the sheets before the first call: rows as create_order leaves them, of
\* alternating clients, some with a status set by hand
RECURSIVE PedidoLists(_)
PedidoLists(n) ==
    IF n = 0 THEN {<<>>}
    ELSE {Append(rows, PedidoRow(OrderId(n), f, ((n - 1) % 2) + 1, e, <<>>, <<>>)) :
             rows \in PedidoLists(n - 1), f \in StoredDates, e \in InitialStatuses}

SheetInit ==
    /\ route = Idle
    /\ sv = Idle
    /\ fm = Idle
    /\ srv = Idle
    /\ \E n \in 0..MaxOrders :
         \E pedidos \in PedidoLists(n) :
            db = [pc |-> "open", pedidos |-> pedidos,
                  contador |-> [c \in ClientIds |-> 0], calls |-> 0, last |-> NoCall]

\* POST /api/orders: create_order appends a row with status Preventa and no
\* visit order
SheetCreateOrder ==
    /\ db.pc = "open" /\ db.calls < MaxCalls
    /\ Len(db.pedidos) < MaxOrders
    /\ \E fecha_ruta \in StoredDates, id_cliente \in ClientIds :
          db' = [db EXCEPT
                    !.pedidos = Append(db.pedidos,
                                       PedidoRow(OrderId(Len(db.pedidos) + 1), fecha_ruta,
                                                 id_cliente, "Preventa", <<>>, <<>>)),
                    !.calls = db.calls + 1,
                    !.last = LastCall("create_order", <<>>, <<>>, 0, <<>>)]
    /\ UNCHANGED <<route, sv, fm, srv>>

\* POST /api/orders/{id}/complete: complete_delivery finds the row, increments the
\* client's counter, then writes D:L of the row in one update, status Entregado
\* and the visit order as read; the update may raise
SheetCompleteDelivery ==
    /\ db.pc = "open" /\ db.calls < MaxCalls
    /\ \E k \in 1..(Len(db.pedidos) + 1), update_raises \in BOOLEAN :
          LET row == Find(db.pedidos, OrderId(k))
          IN  /\ row = 0 => ~update_raises
              /\ db' = IF row = 0
                       THEN [db EXCEPT
                                !.calls = db.calls + 1,
                                !.last = LastCall("complete_delivery", <<>>, <<>>, 0, <<>>)]
                       ELSE LET id_cliente == db.pedidos[row].ID_Cliente
                                folio_nota == db.contador[id_cliente] + 1
                            IN  [db EXCEPT
                                    !.contador[id_cliente] = folio_nota,
                                    !.pedidos[row] =
                                        IF update_raises THEN @
                                        ELSE [@ EXCEPT !.Estatus = "Entregado",
                                                       !.Folio_Nota = <<folio_nota>>],
                                    !.calls = db.calls + 1,
                                    !.last = LastCall("complete_delivery", <<>>, <<>>, 0, <<>>)]
    /\ UNCHANGED <<route, sv, fm, srv>>

\* the request optimize_route handles for a date, against the connected sheets
\* (PROSPECTOS holds no pending prospect, no distance client is configured)
SheetRequest(pedidos, fecha_ruta) ==
    [pc |-> "received", clients |-> [sheets |-> TRUE, distance |-> FALSE],
     request |-> [test_mode |-> FALSE, origin_lat |-> <<>>, origin_lng |-> <<>>],
     sheet |-> [orders |-> GetOrdersForOptimization(pedidos, fecha_ruta),
                prospects |-> <<>>],
     env |-> [svc |-> "ok", sheets_raises |-> FALSE, sink_raises |-> FALSE]]

\* POST /api/optimize-route: the orders of the date are fetched, sequenced, and
\* the visit orders written back by batch_update_visit_orders
SheetOptimizeRoute ==
    /\ db.pc = "open" /\ db.calls < MaxCalls
    /\ \E fecha_ruta \in Dates :
         \E run \in OptimizeRouteRuns(SheetRequest(db.pedidos, fecha_ruta)) :
            LET updates == IF run.sink_calls = <<>> THEN <<>> ELSE run.sink_calls[1]
            IN  \E fault \in Faults(updates) :
                   LET done == BatchUpdateVisitOrders(db.pedidos, updates, fault)
                   IN  db' = [db EXCEPT
                                 !.pedidos = done.pedidos,
                                 !.calls = db.calls + 1,
                                 !.last = LastCall("optimize_route", Ids(run.deliveries),
                                                   updates, done.success_count,
                                                   done.writes)]
    /\ UNCHANGED <<route, sv, fm, srv>>

SheetNext == SheetCreateOrder \/ SheetOptimizeRoute \/ SheetCompleteDelivery

SpecSheet == SheetInit /\ [][SheetNext]_vars

\* the last call was an optimize_route that handed updates to the sheet
SheetBatchRan == db.pc = "open" /\ db.last.kind = "optimize_route" /\ db.last.updates # <<>>

\* this step is a call of optimize_route that handed updates to the sheet
SheetBatchStep ==
    /\ db.pc = "open" /\ db'.calls = db.calls + 1
    /\ db'.last.kind = "optimize_route" /\ db'.last.updates # <<>>

\* the row of the k-th listed order, 0 when the sheet has none
UpdateRow(k) == Find(db.pedidos, db'.last.updates[k].order_id)

Written(row, col) ==
    \E w \in DOMAIN db'.last.writes : db'.last.writes[w] = [row |-> row, col |-> col]

\* the step wrote the Orden_Visita and the status of the k-th listed order
BothWritten(k) ==
    /\ UpdateRow(k) # 0
    /\ Written(UpdateRow(k), 5) /\ Written(UpdateRow(k), 4)
    /\ db'.pedidos[UpdateRow(k)].Orden_Visita = <<db'.last.updates[k].orden_visita>>
    /\ db'.pedidos[UpdateRow(k)].Estatus = "En Ruta"

\* C28 (as claimed): batch_update_visit_orders returns k exactly when k of the
\* listed orders had both Orden_Visita and status "En Ruta" written; an order
\* that is not counted (not found, or a write raised) has neither field changed;
\* and a failure on one update does not keep the other updates from being
\* applied (one call to the spreadsheet service fails per batch at most, so at
\* most one listed order stays unapplied).
C28_CountedIffBothWritten ==
    [][SheetBatchStep =>
          /\ db'.last.success_count
                = Cardinality({k \in DOMAIN db'.last.updates : BothWritten(k)})
          /\ \A k \in DOMAIN db'.last.updates :
                (~BothWritten(k) /\ UpdateRow(k) # 0) =>
                    /\ db'.pedidos[UpdateRow(k)].Orden_Visita
                          = db.pedidos[UpdateRow(k)].Orden_Visita
                    /\ db'.pedidos[UpdateRow(k)].Estatus = db.pedidos[UpdateRow(k)].Estatus
          /\ Cardinality({k \in DOMAIN db'.last.updates : ~BothWritten(k)}) <= 1]_vars

\* the rows whose status reads Entregado
Delivered(pedidos) == {k \in DOMAIN pedidos : pedidos[k].Estatus = "Entregado"}

\* the statuses sequenced, whatever their case and padding
SequencedStatuses == {"confirmado", "pendiente", "preventa", "en ruta"}

\* C29: across create_order, optimize_route and complete_delivery calls, once an
\* order's status is Entregado it stays so, and no later optimize_route includes
\* it as a stop, changes its Orden_Visita or sets its status to En Ruta; the
\* orders an optimize_route sequences have status Confirmado, Pendiente,
\* Preventa or En Ruta.
C29_DeliveredStaysOut ==
    [][db.pc = "open" =>
          /\ \A k \in Delivered(db.pedidos) :
                /\ db'.pedidos[k].Estatus = "Entregado"
                /\ db'.pedidos[k].Orden_Visita = db.pedidos[k].Orden_Visita
                /\ db'.last.kind = "optimize_route" =>
                      \A s \in DOMAIN db'.last.stops :
                          db'.last.stops[s] # db.pedidos[k].ID_Pedido
          /\ (db'.calls = db.calls + 1 /\ db'.last.kind = "optimize_route") =>
                \A s \in DOMAIN db'.last.stops :
                    /\ Find(db.pedidos, db'.last.stops[s]) # 0
                    /\ StatusLower(db.pedidos[Find(db.pedidos, db'.last.stops[s])].Estatus)
                          \in SequencedStatuses]_vars

\* C29 witness: an optimize_route has sequenced an order of a date for which
\* another order, sequenced earlier and delivered since, keeps its visit order
C29_Witness ==
    /\ SheetBatchRan
    /\ \E k \in Delivered(db.pedidos), j \in DOMAIN db.pedidos :
          /\ db.pedidos[k].Orden_Visita # <<>>
          /\ Strip(db.pedidos[j].Fecha_Ruta) = Strip(db.pedidos[k].Fecha_Ruta)
          /\ \E s \in DOMAIN db.last.stops : db.last.stops[s] = db.pedidos[j].ID_Pedido
          /\ db.pedidos[j].Estatus = "En Ruta"
          /\ db.pedidos[j].Orden_Visita = <<1>>

====
